---- MODULE Spec2Model ----
\* Binding-state protocol of glhf: slots, active tokens, typestate handles,
\* map guards and draw bundles, over a model of the GL driver state that the
\* raw entry points read and write.
\*
\* The borrow checker is part of the program: an operation whose receiver is
\* `&mut self` is enabled only while nothing borrowed from the receiver is
\* live, an operation whose receiver is `&self` only while no exclusive borrow
\* is live, and a value moved into a call is gone afterwards.  Every guard of
\* that kind below is read off the signature of the method it models.
EXTENDS Integers, Sequences, FiniteSets, TLC

\* ------------------------------------------------------------------ bounds
NObj == 1        \* objects allocated per batched allocation call
MaxLen == 2      \* largest datastore length / byte offset drawn as an input
MaxShared == 2   \* most `inherit()` tokens of one slot held at the same time
MaxBuffers == 2  \* longest slice of buffers handed to draw_buffers
MaxOffset == 4   \* largest byte offset of a vertex attribute
MaxIndex == 6    \* largest element index an indexed draw of SpecIndexed starts or ends at

\* ------------------------------------------------------------------- slots
BufSlots == {"array", "copy_write", "element_array"}
FbSlots == {"draw", "read"}
TexSlots == {"d2", "d3"}
Slots == BufSlots \cup FbSlots \cup TexSlots \cup {"program", "vertex_array"}

\* The groups of slots one client program works with.  (The client that
\* works on the element-array and the vertex-array slot together is that of
\* SpecDraw.)
Clusters ==
  { {"array", "copy_write"},
    {"draw", "read"},
    {"element_array"},
    {"vertex_array"},
    {"program"},
    {"d2"} }

\* The slots a draw call needs tokens of.
DrawSlots == {"element_array", "vertex_array", "draw", "program"}

\* Buffers are allocated NObj to a call; of every other kind of object one
\* handle is followed.
Names == 1..NObj
Single == {1}

\* -------------------------------------------------------------- token tags
NoToken == [def |-> "-", comp |-> "-", op |-> "-"]
Token(d, c, o) == [def |-> d, comp |-> c, op |-> o]

NoGuard == [live |-> FALSE, access |-> "-", off |-> 0, len |-> 0, buf |-> 0, valid |-> FALSE]

NoRet == [res |-> "Unit", name |-> 0, tag |-> "-", kind |-> "-"]
Panic == [res |-> "Panic", name |-> 0, tag |-> "-", kind |-> "-"]
\* A handle was made of a zero name where the type says NonZero: behaviour is
\* undefined from here on and is followed no further.
Undefined == [res |-> "Undefined", name |-> 0, tag |-> "-", kind |-> "-"]

\* GL_TRUE / GL_FALSE as the driver hands them back.
GLboolean(b) == IF b THEN "GL_TRUE" ELSE "GL_FALSE"

\* A driver call: entry point, target, argument, and what the driver answered
\* where the caller looks at the answer.
CallOut(f, t, a, o) ==
  [f |-> f, target |-> t, arg |-> a, off |-> 0, inst |-> 0, flags |-> {}, out |-> o,
   src |-> "-", srcOff |-> 0, names |-> {}]
Call(f, t, a) == CallOut(f, t, a, "-")
DrawCall(f, count, off, inst) ==
  [f |-> f, target |-> "-", arg |-> count, off |-> off, inst |-> inst, flags |-> {}, out |-> "-",
   src |-> "-", srcOff |-> 0, names |-> {}]

VARIABLES
  focus,      \* the slots this client program uses
  checked,    \* cfg(debug_assertions): is this a checked build
  tok,        \* per slot: the live token borrowed exclusively from the slot
  shared,     \* per slot: number of live tokens borrowed shared from the slot
  bound,      \* driver: object bound to each target (element array: see vaoElem)
  vaoElem,    \* driver: element-array-buffer binding stored in each vertex array
  buf,        \* Buffer handles: "none" | "Buffer" | "deleted"
  bufLen,     \* driver: datastore length of each buffer
  mapped,     \* driver: is the buffer's datastore mapped
  guard,      \* per buffer slot: the live MapGuard borrowed from its token
  store,      \* driver: the bytes of each buffer's datastore
  wrote,      \* history: per buffer, the range and the bytes of the guard last written through, until another write or a loss
  vao,        \* VertexArray handles: "none" | "VertexArray" | "deleted"
  fb,         \* framebuffer handles: "none" | "Incomplete" | "Complete" | "deleted"
  fbAtt,      \* driver: attachment configuration of each framebuffer
  verified,   \* history: framebuffer passed try_complete since its last attachment change
  outcomes,   \* history: what the last two try_completes of each framebuffer since its last attachment change answered
  prog,       \* program handles: "none" | "Program" | "LinkedProgram" | "deleted"
  shader,     \* shader handles by type: "none" | "EmptyShader" | "CompiledShader" | "deleted"
  linked,     \* driver: LINK_STATUS of each program
  attached,   \* driver: the types of the shaders attached to each program
  tex,        \* texture handles: "none" | "Stateless" | "Texture2D" | "deleted"
  unit,       \* driver: the active texture unit
  parked,     \* driver: per texture unit other than the active one, the texture bound to each target
  calls,      \* driver calls issued by the most recent operation, in order
  ret,        \* what the most recent operation returned
  did,        \* the most recent operation: its name and the slots it acted on
  args,       \* what the most recent draw (range, instance count, element type) or map (range) was called with
  touched     \* history: buffer the most recent operation touched, and whether a guard on it was alive

vars == <<focus, checked, tok, shared, bound, vaoElem, buf, bufLen, mapped, guard, store, wrote,
          vao, fb, fbAtt, verified, outcomes, prog, shader, linked, attached,
          tex, unit, parked,
          calls, ret, did, args, touched>>

cfgVars == <<focus, checked>>
slotVars == <<tok, shared>>
progVars == <<prog, shader, linked, attached>>
bufVars == <<buf, bufLen, mapped, guard, store, wrote>>
fbVars == <<fb, fbAtt, verified, outcomes>>
texVars == <<tex, unit, parked>>

\* The texture units of the driver.
Units == 0..1
NoTextures == [s \in TexSlots |-> 0]

NoTouch == [buf |-> 0, guarded |-> FALSE]

\* ------------------------------------------------------------ driver state
\* GL ES 3.0: the ELEMENT_ARRAY_BUFFER binding is state of the bound vertex
\* array object; every other binding is context state.
DriverBinding(s) ==
  IF s = "element_array" THEN vaoElem[bound["vertex_array"]] ELSE bound[s]

\* A driver whose bind calls would leave the context's bindings as they were.
BoundAsBefore(s, n) == bound

\* bound and vaoElem after the driver binds name n to the target of slot s
BoundAfterBind(s, n) ==
  IF s = "element_array" THEN bound ELSE [bound EXCEPT ![s] = n]
VaoElemAfterBind(s, n) ==
  IF s = "element_array" THEN [vaoElem EXCEPT ![bound["vertex_array"]] = n] ELSE vaoElem

\* ---------------------------------------------------------- borrow checker
\* What the receiver would ask for were every slot method to take `&self`
\* and hand out an unborrowed token.
CanAlways(s) == s \in Slots

\* `&mut self` on the slot: no token of the slot is live.
CanMut(s) == tok[s] = NoToken /\ shared[s] = 0
\* What `&self` would ask for were tokens not to borrow the slot at all.
CanRefAlways(s) == s \in Slots

\* `&self` on the slot: no exclusively borrowed token of the slot is live.
CanRef(s) == tok[s] = NoToken
\* `&mut self` on a `Slots` aggregate: none of its fields is borrowed.
CanMutAll(S) == \A s \in S : CanMut(s)

Running == ret.res \notin {"Panic", "Undefined"}

GuardAliveOn(b) == \E s \in BufSlots : guard[s].live /\ guard[s].buf = b

\* The bytes of the slice a client hands to data or sub_data; the slices
\* differ in length, and one content stands for all.
Payload(n) == [i \in 1..n |-> 0]

\* The bytes a client stores through a `&mut [u8]`.
Bytes == 0..1

\* A byte of a datastore that the driver leaves undefined: after BufferData
\* with a null pointer, and after an unmap that reports the store lost.
Indeterminate == 2
Unspecified(n) == [i \in 1..n |-> Indeterminate]

\* A datastore with the bytes `new` written from offset `off` on.
Overwritten(bytes, off, new) ==
  [i \in 1..Len(bytes) |-> IF off < i /\ i <= off + Len(new) THEN new[i - off] ELSE bytes[i]]

\* No bytes written through a guard stand in the buffer.
NoWrite == [valid |-> FALSE, off |-> 0, len |-> 0, bytes |-> <<>>]

\* The pointers of the live guards over the buffers in B dangle once the
\* driver has dropped the mappings of these buffers.
Invalidated(B) ==
  [s \in BufSlots |-> IF guard[s].live /\ guard[s].buf \in B
                        THEN [guard[s] EXCEPT !.valid = FALSE] ELSE guard[s]]

\* What a driver call that redefines the whole datastore of buffer b leaves.
Redefined(b, bytes) ==
  /\ store' = IF b = 0 THEN store ELSE [store EXCEPT ![b] = bytes]
  /\ wrote' = IF b = 0 THEN wrote ELSE [wrote EXCEPT ![b] = NoWrite]
  /\ guard' = Invalidated({b} \ {0})

Touch(b) == [buf |-> b, guarded |-> b # 0 /\ GuardAliveOn(b)]

Did(o, S) == [op |-> o, slots |-> S]

\* The arguments of a draw; ranged_elements has no instance count and draws
\* one instance.
DrawArgs(ty, start, end, instances) ==
  [ty |-> ty, start |-> start, end |-> end, instances |-> instances]
NoArgs == DrawArgs("-", 0, 0, 0)

\* What an operation leaves behind: its name, the driver calls it issued and
\* what it returned.
Returned(o, S, c, r) ==
  /\ did' = Did(o, S)
  /\ calls' = c
  /\ ret' = r

\* What every operation that is not a draw leaves behind.
Report(o, S, c, r) ==
  /\ Returned(o, S, c, r)
  /\ args' = NoArgs

\* A token that would come out of inherit tagged as a bound one.
LentBound(def, comp) == [res |-> "Ok", name |-> 0, tag |-> "NotDefault", kind |-> comp]

\* The token an inherit hands out, by the tags of its type: `Active<_,
\* Unknown>`, for a framebuffer `Active<T, Unknown, Unknown>`, for a texture
\* `Active<Dim>`, which has no tag.
Lent(def, comp) == [res |-> "Ok", name |-> 0, tag |-> def, kind |-> comp]

\* The name of the handle an operation was given.
HandleArgs(n) == [handle |-> n]

\* What an operation that is given a handle leaves behind.
Taken(o, S, c, r, n) ==
  /\ Returned(o, S, c, r)
  /\ args' = HandleArgs(n)

\* A conversion that would hand back a handle of the next name.
RetypedAnew(name, type) == [res |-> "Ok", name |-> name + 1, tag |-> type, kind |-> "-"]

\* A handle given a new typestate: the types are repr(transparent) over the
\* name, and a conversion moves or transmutes that name.
Retyped(name, type) == [res |-> "Ok", name |-> name, tag |-> type, kind |-> "-"]

\* An error that would not carry the handle.
Consumed(name, type, error) == [res |-> "Err", name |-> 0, tag |-> "-", kind |-> error]

\* A handle handed back inside an error, typed as it came.
HandedBack(name, type, error) == [res |-> "Err", name |-> name, tag |-> type, kind |-> error]

\* ------------------------------------------------------------- allocation
\* The array length N of a batched allocation or deletion.
CountArgs(N) == [n |-> N]

\* The names of a table that no handle carries yet, and the N lowest of them.
Free(table) == {n \in DOMAIN table : table[n] = "none"}
Lowest(S, N) ==
  CHOOSE T \in SUBSET S : Cardinality(T) = N /\ \A a \in T, b \in S \ T : a < b

\* The table after N fresh names became handles of the given type; a driver
\* that wrote a zero name leaves no handle.
Generated(table, N, zeroed, type) ==
  IF zeroed THEN table
  ELSE [n \in DOMAIN table |-> IF n \in Lowest(Free(table), N) THEN type ELSE table[n]]

\* An allocation that would ask the driver for one name whatever N is.
gl_gen_one(op, gen, N, zeroed) ==
  /\ args' = CountArgs(N)
  /\ Returned(op, {}, <<CallOut(gen, "-", 1, IF zeroed THEN "zero" ELSE "names")>>,
              IF ~zeroed THEN NoRet ELSE IF checked THEN Panic ELSE Undefined)

\* gl_gen_with::<N, T>(gl_gen): one call of gl_gen with count N; a checked
\* build panics on a zero name, an unchecked one assumes the names non-zero.
gl_gen_with(op, gen, N, zeroed) ==
  /\ args' = CountArgs(N)
  /\ Returned(op, {}, <<CallOut(gen, "-", N, IF zeroed THEN "zero" ELSE "names")>>,
              IF ~zeroed THEN NoRet ELSE IF checked THEN Panic ELSE Undefined)

\* A deletion that would hand the driver the count and no names.
gl_delete_unnamed(op, slots, delete, S) ==
  /\ args' = CountArgs(Cardinality(S))
  /\ Returned(op, slots, <<Call(delete, "-", Cardinality(S))>>, NoRet)

\* gl_delete_with::<N, T>(gl_delete, names): one call of gl_delete with
\* count N and the names of the handles.
gl_delete_with(op, slots, delete, S) ==
  /\ args' = CountArgs(Cardinality(S))
  /\ Returned(op, slots, <<[Call(delete, "-", Cardinality(S)) EXCEPT !.names = S]>>, NoRet)

\* New::buffers::<N>(): one GenBuffers call, N handles.
GenBuffers(N, zeroed) ==
  /\ Running
  /\ focus \cap BufSlots # {}
  /\ N <= Cardinality(Free(buf))
  /\ zeroed => N > 0
  /\ buf' = Generated(buf, N, zeroed, "Buffer")
  /\ gl_gen_with("buffers", "GenBuffers", N, zeroed)
  /\ touched' = NoTouch
  /\ UNCHANGED <<cfgVars, slotVars, bound, vaoElem, bufLen, mapped, guard, store, wrote, vao, fbVars, progVars, texVars>>

\* ------------------------------------------------------------ buffer slots
\* Slot::bind(&mut self, &Buffer) -> &mut Active<Binding, NotDefault>
BufferBind(s, n) ==
  /\ Running
  /\ s \in focus \cap BufSlots
  /\ CanMut(s)
  /\ buf[n] = "Buffer"
  /\ bound' = BoundAfterBind(s, n)
  /\ vaoElem' = VaoElemAfterBind(s, n)
  /\ tok' = [tok EXCEPT ![s] = Token("NotDefault", "-", "bind")]
  /\ Taken("bind", {s}, <<Call("BindBuffer", s, n)>>, NoRet, n)
  /\ touched' = NoTouch
  /\ UNCHANGED <<cfgVars, shared, bufVars, vao, fbVars, progVars, texVars>>

\* Slot::unbind(&mut self) -> &mut Active<Binding, IsDefault>
BufferUnbind(s) ==
  /\ Running
  /\ s \in focus \cap BufSlots
  /\ CanMut(s)
  /\ bound' = BoundAfterBind(s, 0)
  /\ vaoElem' = VaoElemAfterBind(s, 0)
  /\ tok' = [tok EXCEPT ![s] = Token("IsDefault", "-", "unbind")]
  /\ Report("unbind", {s}, <<Call("BindBuffer", s, 0)>>, NoRet)
  /\ touched' = NoTouch
  /\ UNCHANGED <<cfgVars, shared, bufVars, vao, fbVars, progVars, texVars>>

\* Slot::inherit(&self) -> &Active<Binding, Unknown>: no driver call.
BufferInherit(s) ==
  /\ Running
  /\ s \in focus \cap BufSlots
  /\ CanRef(s)
  /\ shared[s] < MaxShared
  /\ shared' = [shared EXCEPT ![s] = @ + 1]
  /\ Report("inherit", {s}, <<>>, Lent("Unknown", "-"))
  /\ touched' = NoTouch
  /\ UNCHANGED <<cfgVars, tok, bound, vaoElem, bufVars, vao, fbVars, progVars, texVars>>

\* Slot::inherit_mut(&mut self) -> &mut Active<Binding, Unknown>: no driver call.
BufferInheritMut(s) ==
  /\ Running
  /\ s \in focus \cap BufSlots
  /\ CanMut(s)
  /\ tok' = [tok EXCEPT ![s] = Token("Unknown", "-", "inherit_mut")]
  /\ Report("inherit_mut", {s}, <<>>, Lent("Unknown", "-"))
  /\ touched' = NoTouch
  /\ UNCHANGED <<cfgVars, shared, bound, vaoElem, bufVars, vao, fbVars, progVars, texVars>>

\* Slots::delete(&mut self, [Buffer; N]): one DeleteBuffers call; the driver
\* resets to zero every binding of the current context that named a deleted
\* buffer and unmaps it.
DeleteBuffers(S) ==
  /\ Running
  /\ focus \cap BufSlots # {}
  /\ CanMutAll(BufSlots)
  /\ \A n \in S : buf[n] = "Buffer"
  /\ buf' = [n \in Names |-> IF n \in S THEN "deleted" ELSE buf[n]]
  /\ bound' = [s \in Slots |-> IF s \in BufSlots /\ bound[s] \in S THEN 0 ELSE bound[s]]
  /\ vaoElem' = [vaoElem EXCEPT ![bound["vertex_array"]] = IF @ \in S THEN 0 ELSE @]
  /\ bufLen' = [n \in Names |-> IF n \in S THEN 0 ELSE bufLen[n]]
  /\ mapped' = [n \in Names |-> n \notin S /\ mapped[n]]
  /\ store' = [n \in Names |-> IF n \in S THEN <<>> ELSE store[n]]
  /\ wrote' = [n \in Names |-> IF n \in S THEN NoWrite ELSE wrote[n]]
  /\ gl_delete_with("delete", BufSlots, "DeleteBuffers", S)
  /\ touched' = [buf |-> Cardinality(S), guarded |-> \E n \in S : GuardAliveOn(n)]
  /\ UNCHANGED <<cfgVars, tok, shared, guard, vao, fbVars, progVars, texVars>>

\* ----------------------------------------------------- buffer active token
\* What a buffer operation would ask for were it implemented for tokens of
\* every tag.
HoldsAnyBuffer(s) ==
  /\ Running
  /\ s \in focus \cap BufSlots
  /\ tok[s] # NoToken
  /\ ~guard[s].live

\* The token is usable while no MapGuard reborrows it (`_active: &mut Active`).
HoldsBuffer(s) ==
  /\ Running
  /\ s \in focus \cap BufSlots
  /\ tok[s].def = "NotDefault"
  /\ ~guard[s].live

\* Active::data(&mut self, data, ..): BufferData reallocates the datastore of
\* the buffer bound to the target; the driver drops any mapping of it.
Data(s, n) ==
  /\ HoldsBuffer(s)
  /\ LET b == DriverBinding(s) IN
       /\ touched' = Touch(b)
       /\ bufLen' = IF b = 0 THEN bufLen ELSE [bufLen EXCEPT ![b] = n]
       /\ mapped' = IF b = 0 THEN mapped ELSE [mapped EXCEPT ![b] = FALSE]
       /\ Redefined(b, Payload(n))
  /\ Report("data", {s}, <<Call("BufferData", s, n)>>, NoRet)
  /\ UNCHANGED <<cfgVars, slotVars, bound, vaoElem, buf, vao, fbVars, progVars, texVars>>

\* Active::data_uninit(&mut self, len, ..): BufferData with a null pointer.
DataUninit(s, n) ==
  /\ HoldsBuffer(s)
  /\ LET b == DriverBinding(s) IN
       /\ touched' = Touch(b)
       /\ bufLen' = IF b = 0 THEN bufLen ELSE [bufLen EXCEPT ![b] = n]
       /\ mapped' = IF b = 0 THEN mapped ELSE [mapped EXCEPT ![b] = FALSE]
       /\ Redefined(b, Unspecified(n))
  /\ Report("data_uninit", {s}, <<CallOut("BufferData", s, n, "null")>>, NoRet)
  /\ UNCHANGED <<cfgVars, slotVars, bound, vaoElem, buf, vao, fbVars, progVars, texVars>>

\* The offsets and the length a byte-range operation was called with.
ByteArgs(read, write, len) == [read |-> read, write |-> write, len |-> len]

\* The driver's BufferSubData and CopyBufferSubData write len bytes from
\* offset off on into buffer b when one is bound, it is not mapped and the
\* range lies in its datastore; otherwise they raise an error and write
\* nothing.
Writable(b, off, len) == b # 0 /\ ~mapped[b] /\ off + len <= bufLen[b]

\* What a driver call that writes `new` into buffer b from offset off on
\* leaves, and what one that raised an error leaves.
Patched(done, b, off, new) ==
  /\ store' = IF done THEN [store EXCEPT ![b] = Overwritten(@, off, new)] ELSE store
  /\ wrote' = IF done THEN [wrote EXCEPT ![b] = NoWrite] ELSE wrote

\* Active::sub_data(&mut self, offset, data): BufferSubData, no early return.
SubData(s, off, n) ==
  /\ HoldsBuffer(s)
  /\ args' = ByteArgs(0, off, n)
  /\ touched' = Touch(DriverBinding(s))
  /\ Patched(n > 0 /\ Writable(DriverBinding(s), off, n), DriverBinding(s), off, Payload(n))
  /\ Returned("sub_data", {s}, <<[Call("BufferSubData", s, n) EXCEPT !.off = off]>>, NoRet)
  /\ UNCHANGED <<cfgVars, slotVars, bound, vaoElem, buf, bufLen, mapped, guard, vao, fbVars, progVars, texVars>>

\* gl::CopyBufferSubData(OtherBinding::TARGET, Binding::TARGET, read_offset,
\* write_offset, len)
CopyCall(src, dst, read, write, len) ==
  [Call("CopyBufferSubData", dst, len) EXCEPT !.off = write, !.src = src, !.srcOff = read]

\* The body of copy_from, reached from copy_from, copy_to and copy_self: an
\* early return for len == 0, else one CopyBufferSubData from the target of
\* src to the target of dst.
CopyInto(op, dst, src, read, write, len) ==
  /\ args' = ByteArgs(read, write, len)
  /\ touched' = IF len = 0 THEN NoTouch
                ELSE [buf |-> DriverBinding(dst),
                      guarded |-> \/ (DriverBinding(dst) # 0 /\ GuardAliveOn(DriverBinding(dst)))
                                  \/ (DriverBinding(src) # 0 /\ GuardAliveOn(DriverBinding(src)))]
  /\ LET from == DriverBinding(src)
         to == DriverBinding(dst)
         done == /\ len > 0
                 /\ Writable(from, read, len)
                 /\ Writable(to, write, len)
                 /\ from = to => (read + len <= write \/ write + len <= read)
     IN Patched(done, to, write, IF done THEN SubSeq(store[from], read + 1, read + len) ELSE <<>>)
  /\ Returned(op, {dst, src},
              IF len = 0 THEN <<>> ELSE <<CopyCall(src, dst, read, write, len)>>, NoRet)
  /\ UNCHANGED <<cfgVars, slotVars, bound, vaoElem, buf, bufLen, mapped, guard, vao, fbVars, progVars, texVars>>

\* Active::copy_from(&mut self, &Active<OtherBinding, NotDefault>, ..)
CopyFrom(s, o, read, write, len) ==
  /\ HoldsBuffer(s)
  /\ HoldsBuffer(o)
  /\ o # s
  /\ CopyInto("copy_from", s, o, read, write, len)

\* Active::copy_to(&self, &mut Active<OtherBinding, NotDefault>, ..):
\* other.copy_from(self, ..)
CopyTo(s, o, read, write, len) ==
  /\ HoldsBuffer(s)
  /\ HoldsBuffer(o)
  /\ o # s
  /\ CopyInto("copy_to", o, s, read, write, len)

\* Active::copy_self(&mut self, ..): copy_from with the token's own target
\* as the source.
CopySelf(s, read, write, len) ==
  /\ HoldsBuffer(s)
  /\ CopyInto("copy_self", s, s, read, write, len)

\* A query that never writes the length.
QueriedNothing(s, junk) == junk

\* Active::len(&self): GetBufferParameteri64v(BUFFER_SIZE) on the target
\* writes into uninitialised memory.  The driver leaves the memory unwritten
\* when no buffer is bound to the target, and the value read back is then
\* whatever the memory holds.
QueriedLen(s, junk) == IF DriverBinding(s) = 0 THEN junk ELSE bufLen[DriverBinding(s)]

\* The values the memory the length is read from may have held before the
\* query: any where the driver leaves it unwritten; where the driver writes
\* the length they make no difference and one stands for all.
Junk(s) == IF DriverBinding(s) = 0 THEN 0..MaxLen ELSE {0}

ActiveLen(s, junk) ==
  /\ HoldsBuffer(s)
  /\ junk \in Junk(s)
  /\ touched' = Touch(DriverBinding(s))
  /\ Report("len", {s}, <<Call("GetBufferParameteri64v", s, 0)>>,
            [res |-> "Ok", name |-> QueriedLen(s, junk), tag |-> "-", kind |-> "-"])
  /\ UNCHANGED <<cfgVars, slotVars, bound, vaoElem, bufVars, vao, fbVars, progVars, texVars>>

\* Active::is_empty(&self): self.len() == 0
IsEmpty(s, junk) ==
  /\ HoldsBuffer(s)
  /\ junk \in Junk(s)
  /\ touched' = Touch(DriverBinding(s))
  /\ Report("is_empty", {s}, <<Call("GetBufferParameteri64v", s, 0)>>,
            [res |-> "Ok", name |-> 0, tag |-> "bool", kind |-> GLboolean(QueriedLen(s, junk) = 0)])
  /\ UNCHANGED <<cfgVars, slotVars, bound, vaoElem, bufVars, vao, fbVars, progVars, texVars>>

\* Active::usage(&self): GetBufferParameteriv(BUFFER_USAGE) into an
\* uninitialized word, then a match with `unreachable!()` on any value that
\* is no usage hint; with no buffer bound the driver writes nothing.
Usage(s, hint) ==
  /\ HoldsBuffer(s)
  /\ DriverBinding(s) # 0 => hint
  /\ touched' = Touch(DriverBinding(s))
  /\ Report("usage", {s}, <<Call("GetBufferParameteriv", s, 0)>>,
            IF hint THEN [res |-> "Ok", name |-> 0, tag |-> "usage", kind |-> "-"] ELSE Panic)
  /\ UNCHANGED <<cfgVars, slotVars, bound, vaoElem, bufVars, vao, fbVars, progVars, texVars>>

\* ---------------------------------------------------------------- mapping
\* Flags that would ask for write access whatever the guard's type.
MapFlagsWritable(access) == {"MAP_READ_BIT", "MAP_WRITE_BIT"}

\* MapAccess::FLAGS
MapFlags(access) == IF access = "Read" THEN {"MAP_READ_BIT"}
                    ELSE {"MAP_READ_BIT", "MAP_WRITE_BIT"}

\* The driver's MapBufferRange: a null pointer when no buffer is bound, the
\* buffer is already mapped, the length is zero or the range leaves the
\* datastore; otherwise it may still fail for lack of memory.
MapCanSucceed(s, off, n) ==
  LET b == DriverBinding(s) IN
    /\ b # 0
    /\ ~mapped[b]
    /\ n > 0
    /\ off + n <= bufLen[b]

\* core::ops::Bound<usize>
Unbounded == [kind |-> "Unbounded", x |-> 0]
Included(x) == [kind |-> "Included", x |-> x]
Excluded(x) == [kind |-> "Excluded", x |-> x]

\* The ranges a client writes: in Ranges `a..b` from the first or the second
\* byte on, in AllRanges every pair of bounds that impl RangeBounds<usize>
\* admits.
Ranges == {[lo |-> Included(a), hi |-> Excluded(b)] : a \in 0..1, b \in 0..MaxLen}
Bounds == {Unbounded} \cup {Included(x) : x \in 0..MaxLen} \cup {Excluded(x) : x \in 0..MaxLen}
AllRanges == {[lo |-> l, hi |-> h] : l \in Bounds, h \in Bounds}

\* Min offset, inclusive.
LeftOf(b) ==
  CASE b.kind = "Unbounded" -> 0
    [] b.kind = "Included" -> b.x
    [] b.kind = "Excluded" -> b.x + 1

\* An end that would take an included bound for an excluded one.
RightOfExcluded(b, len) == IF b.kind = "Unbounded" THEN len ELSE b.x

\* Max offset, exclusive; len is what self.len() answers.
RightOf(b, len) ==
  CASE b.kind = "Unbounded" -> len
    [] b.kind = "Included" -> b.x + 1
    [] b.kind = "Excluded" -> b.x

\* The driver calls made while the bounds are computed: self.len(), for an
\* unbounded end only.
RangeQuery(s, range) ==
  IF range.hi.kind = "Unbounded" THEN <<Call("GetBufferParameteri64v", s, 0)>> ELSE <<>>

\* gl::MapBufferRange(Binding::TARGET, offset, len, Access::FLAGS) and the
\* pointer it returned.
MapCall(s, off, n, access, ptr) ==
  [CallOut("MapBufferRange", s, n, ptr) EXCEPT !.off = off, !.flags = MapFlags(access)]

\* map without the assertion of map_impl: a guard is made of whatever pointer
\* the driver returned.
MapUnasserted(s, access, range, driverOk, junk) ==
  /\ HoldsBuffer(s)
  /\ junk \in Junk(s)
  /\ args' = range
  /\ LET left == LeftOf(range.lo)
         right == RightOf(range.hi, QueriedLen(s, junk))
         query == RangeQuery(s, range)
         b == DriverBinding(s)
     IN /\ touched' = IF right < left /\ query = <<>> THEN NoTouch ELSE Touch(b)
        /\ IF right < left
             THEN /\ Returned("map", {s}, query, Panic)
                  /\ UNCHANGED <<guard, mapped>>
             ELSE LET n == right - left
                      ok == driverOk /\ MapCanSucceed(s, left, n)
                  IN /\ Returned("map", {s},
                                  query \o <<MapCall(s, left, n, access, IF ok THEN "ptr" ELSE "null")>>,
                                  NoRet)
                     /\ guard' = [guard EXCEPT ![s] = [live |-> TRUE, access |-> access, off |-> left,
                                                       len |-> n, buf |-> b, valid |-> ok]]
                     /\ mapped' = IF ok THEN [mapped EXCEPT ![b] = TRUE] ELSE mapped
  /\ UNCHANGED <<cfgVars, slotVars, bound, vaoElem, buf, bufLen, store, wrote, vao, fbVars, progVars, texVars>>

\* Active::map::<Access>(&mut self, range) then map_impl: the bounds are
\* computed, the range is checked, MapBufferRange is issued, a null pointer
\* panics.
Map(s, access, range, driverOk, junk) ==
  /\ HoldsBuffer(s)
  /\ junk \in Junk(s)
  /\ args' = range
  /\ LET left == LeftOf(range.lo)
         right == RightOf(range.hi, QueriedLen(s, junk))
         query == RangeQuery(s, range)
         b == DriverBinding(s)
     IN /\ touched' = IF right < left /\ query = <<>> THEN NoTouch ELSE Touch(b)
        /\ IF right < left
             THEN /\ Returned("map", {s}, query, Panic)
                  /\ UNCHANGED <<guard, mapped>>
             ELSE LET n == right - left
                      ok == driverOk /\ MapCanSucceed(s, left, n)
                  IN /\ Returned("map", {s},
                                  query \o <<MapCall(s, left, n, access, IF ok THEN "ptr" ELSE "null")>>,
                                  IF ok THEN NoRet ELSE Panic)
                     /\ guard' = IF ok
                                   THEN [guard EXCEPT ![s] = [live |-> TRUE, access |-> access, off |-> left,
                                                              len |-> n, buf |-> b, valid |-> TRUE]]
                                   ELSE guard
                     /\ mapped' = IF ok THEN [mapped EXCEPT ![b] = TRUE] ELSE mapped
  /\ UNCHANGED <<cfgVars, slotVars, bound, vaoElem, buf, bufLen, store, wrote, vao, fbVars, progVars, texVars>>

\* The driver's UnmapBuffer on the target: FALSE when nothing mapped is bound
\* there, and possibly FALSE when the datastore was lost while mapped.
UnmapCanSucceed(s) == DriverBinding(s) # 0 /\ mapped[DriverBinding(s)]

MappedAfterUnmap(s) ==
  IF DriverBinding(s) = 0 THEN mapped ELSE [mapped EXCEPT ![DriverBinding(s)] = FALSE]

\* What UnmapBuffer on the target of s, answering as the driver chose,
\* leaves of the guards and of the datastore: the guard is gone, any other
\* pointer into the buffer dangles, and the bytes of a store reported lost
\* are undefined.
Unmapped(s, driverOk) ==
  LET b == DriverBinding(s)
      lost == UnmapCanSucceed(s) /\ ~driverOk
  IN /\ guard' = [Invalidated({b} \ {0}) EXCEPT ![s] = NoGuard]
     /\ mapped' = MappedAfterUnmap(s)
     /\ store' = IF lost THEN [store EXCEPT ![b] = Unspecified(Len(@))] ELSE store
     /\ wrote' = IF lost THEN [wrote EXCEPT ![b] = NoWrite] ELSE wrote

\* What unmap would return were it to assert the driver's answer as the
\* drop glue does.
UnmapAsserted(answer) == IF answer THEN NoRet ELSE Panic

\* MapGuard::unmap: the driver's answer as a Result.
UnmapResult(answer) ==
  IF answer THEN [res |-> "Ok", name |-> 0, tag |-> "-", kind |-> "-"]
            ELSE [res |-> "Err", name |-> 0, tag |-> "-", kind |-> "Lost"]

\* Drop for MapGuard: assert_eq!(UnmapBuffer(..), TRUE)
DropResult(answer) == IF answer THEN NoRet ELSE Panic

\* unmap without its mem::forget: the drop glue runs at the end of the call,
\* unmaps a second time and asserts the answer.
UnmapThenDrop(s, driverOk) ==
  /\ Running
  /\ s \in focus \cap BufSlots
  /\ guard[s].live
  /\ Unmapped(s, driverOk)
  /\ LET answer == driverOk /\ UnmapCanSucceed(s) IN
       Report("unmap", {s},
              <<CallOut("UnmapBuffer", s, 0, GLboolean(answer)),
                CallOut("UnmapBuffer", s, 0, GLboolean(FALSE))>>, Panic)
  /\ touched' = NoTouch
  /\ UNCHANGED <<cfgVars, slotVars, bound, vaoElem, buf, bufLen, vao, fbVars, progVars, texVars>>

\* MapGuard::unmap(self): forgets the guard, issues UnmapBuffer once and
\* returns the driver's answer as a Result.
Unmap(s, driverOk) ==
  /\ Running
  /\ s \in focus \cap BufSlots
  /\ guard[s].live
  /\ Unmapped(s, driverOk)
  /\ LET answer == driverOk /\ UnmapCanSucceed(s) IN
       Report("unmap", {s}, <<CallOut("UnmapBuffer", s, 0, GLboolean(answer))>>, UnmapResult(answer))
  /\ touched' = NoTouch
  /\ UNCHANGED <<cfgVars, slotVars, bound, vaoElem, buf, bufLen, vao, fbVars, progVars, texVars>>

\* Drop for MapGuard: issues UnmapBuffer once and asserts the driver's answer.
DropGuard(s, driverOk) ==
  /\ Running
  /\ s \in focus \cap BufSlots
  /\ guard[s].live
  /\ Unmapped(s, driverOk)
  /\ LET answer == driverOk /\ UnmapCanSucceed(s) IN
       Report("drop_guard", {s}, <<CallOut("UnmapBuffer", s, 0, GLboolean(answer))>>, DropResult(answer))
  /\ touched' = NoTouch
  /\ UNCHANGED <<cfgVars, slotVars, bound, vaoElem, buf, bufLen, vao, fbVars, progVars, texVars>>

\* Deref for MapGuard<Binding, Access>: a `&[u8]` of the mapped bytes, of the
\* length the guard was made with; implemented for every Access.
Deref(s) ==
  /\ Running
  /\ s \in focus \cap BufSlots
  /\ guard[s].live
  /\ Report("deref", {s}, <<>>, [res |-> "Ok", name |-> guard[s].len, tag |-> "&[u8]", kind |-> "-"])
  /\ touched' = NoTouch
  /\ UNCHANGED <<cfgVars, slotVars, bound, vaoElem, bufVars, vao, fbVars, progVars, texVars>>

\* DerefMut for MapGuard<Binding, ReadWrite>: a `&mut [u8]`; there is no impl
\* for MapGuard<Binding, Read>.
DerefMut(s) ==
  /\ Running
  /\ s \in focus \cap BufSlots
  /\ guard[s].live
  /\ guard[s].access = "ReadWrite"
  /\ Report("deref_mut", {s}, <<>>,
            [res |-> "Ok", name |-> guard[s].len, tag |-> "&mut [u8]", kind |-> "-"])
  /\ touched' = NoTouch
  /\ UNCHANGED <<cfgVars, slotVars, bound, vaoElem, bufVars, vao, fbVars, progVars, texVars>>

\* A slice that would start at the first byte of the datastore whatever the
\* offset of the mapping.
SliceFromStart(s) == SubSeq(store[guard[s].buf], 1, guard[s].len)

\* The `[u8]` both impls make: slice::from_raw_parts(self.ptr, self.len), the
\* bytes of the mapped datastore from the offset of the mapping on.
Slice(s) == SubSeq(store[guard[s].buf], guard[s].off + 1, guard[s].off + guard[s].len)

\* The index and the byte of a load or a store through a slice.
SliceArgs(i, v) == [i |-> i, v |-> v]

\* A load of byte i of the `&[u8]` of deref: an index past the end panics,
\* and a load through a pointer that dangles is undefined.
Load(s, i) ==
  /\ Running
  /\ s \in focus \cap BufSlots
  /\ guard[s].live
  /\ args' = SliceArgs(i, 0)
  /\ Returned("load", {s}, <<>>,
              IF i >= guard[s].len THEN Panic
              ELSE IF ~guard[s].valid THEN Undefined
              ELSE [res |-> "Ok", name |-> Slice(s)[i + 1], tag |-> "u8", kind |-> "-"])
  /\ touched' = NoTouch
  /\ UNCHANGED <<cfgVars, slotVars, bound, vaoElem, bufVars, vao, fbVars, progVars, texVars>>

\* A store of v into byte i of the `&mut [u8]` of deref_mut: the byte of the
\* datastore at the offset of the mapping plus i.
Store(s, i, v) ==
  /\ Running
  /\ s \in focus \cap BufSlots
  /\ guard[s].live
  /\ guard[s].access = "ReadWrite"
  /\ args' = SliceArgs(i, v)
  /\ LET g == guard[s]
         bytes == Overwritten(store[g.buf], g.off + i, <<v>>)
     IN IF i < g.len /\ g.valid
          THEN /\ store' = [store EXCEPT ![g.buf] = bytes]
               /\ wrote' = [wrote EXCEPT ![g.buf] =
                              [valid |-> TRUE, off |-> g.off, len |-> g.len,
                               bytes |-> SubSeq(bytes, g.off + 1, g.off + g.len)]]
               /\ Returned("store", {s}, <<>>, NoRet)
          ELSE /\ UNCHANGED <<store, wrote>>
               /\ Returned("store", {s}, <<>>, IF i >= g.len THEN Panic ELSE Undefined)
  /\ touched' = NoTouch
  /\ UNCHANGED <<cfgVars, slotVars, bound, vaoElem, buf, bufLen, mapped, guard, vao, fbVars, progVars, texVars>>

\* ------------------------------------------------------- end of a borrow
\* The last use of an exclusively borrowed token; a MapGuard borrowed from
\* it must have ended before.
DropToken(s) ==
  /\ Running
  /\ s \in focus
  /\ tok[s] # NoToken
  /\ s \in BufSlots => ~guard[s].live
  /\ tok' = [tok EXCEPT ![s] = NoToken]
  /\ Report("drop_token", {s}, <<>>, NoRet)
  /\ touched' = NoTouch
  /\ UNCHANGED <<cfgVars, shared, bound, vaoElem, bufVars, vao, fbVars, progVars, texVars>>

\* The last use of a token obtained from inherit().
DropShared(s) ==
  /\ Running
  /\ s \in focus
  /\ shared[s] > 0
  /\ shared' = [shared EXCEPT ![s] = @ - 1]
  /\ Report("drop_shared", {s}, <<>>, NoRet)
  /\ touched' = NoTouch
  /\ UNCHANGED <<cfgVars, tok, bound, vaoElem, bufVars, vao, fbVars, progVars, texVars>>


\* ------------------------------------------------------ vertex array slot
\* Create::vertex_arrays::<N>()
GenVertexArrays(N, zeroed) ==
  /\ Running
  /\ "vertex_array" \in focus
  /\ N <= Cardinality(Free(vao))
  /\ zeroed => N > 0
  /\ vao' = Generated(vao, N, zeroed, "VertexArray")
  /\ gl_gen_with("vertex_arrays", "GenVertexArrays", N, zeroed)
  /\ touched' = NoTouch
  /\ UNCHANGED <<cfgVars, slotVars, bound, vaoElem, bufVars, fbVars, progVars, texVars>>

\* Slot::bind(&mut self, &VertexArray) -> &mut Active<NotDefault>.  The
\* driver's element-array binding becomes the one stored in the array bound.
VertexArrayBind(n) ==
  /\ Running
  /\ "vertex_array" \in focus
  /\ CanMut("vertex_array")
  /\ vao[n] = "VertexArray"
  /\ bound' = [bound EXCEPT !["vertex_array"] = n]
  /\ tok' = [tok EXCEPT !["vertex_array"] = Token("NotDefault", "-", "bind")]
  /\ Taken("bind", {"vertex_array"}, <<Call("BindVertexArray", "vertex_array", n)>>, NoRet, n)
  /\ touched' = NoTouch
  /\ UNCHANGED <<cfgVars, shared, vaoElem, bufVars, vao, fbVars, progVars, texVars>>

\* Slot::unbind(&mut self) -> &mut Active<IsDefault>
VertexArrayUnbind ==
  /\ Running
  /\ "vertex_array" \in focus
  /\ CanMut("vertex_array")
  /\ bound' = [bound EXCEPT !["vertex_array"] = 0]
  /\ tok' = [tok EXCEPT !["vertex_array"] = Token("IsDefault", "-", "unbind")]
  /\ Report("unbind", {"vertex_array"}, <<Call("BindVertexArray", "vertex_array", 0)>>, NoRet)
  /\ touched' = NoTouch
  /\ UNCHANGED <<cfgVars, shared, vaoElem, bufVars, vao, fbVars, progVars, texVars>>

\* Slot::inherit(&self) -> &Active<Unknown>
VertexArrayInherit ==
  /\ Running
  /\ "vertex_array" \in focus
  /\ CanRef("vertex_array")
  /\ shared["vertex_array"] < MaxShared
  /\ shared' = [shared EXCEPT !["vertex_array"] = @ + 1]
  /\ Report("inherit", {"vertex_array"}, <<>>, Lent("Unknown", "-"))
  /\ touched' = NoTouch
  /\ UNCHANGED <<cfgVars, tok, bound, vaoElem, bufVars, vao, fbVars, progVars, texVars>>

\* Slot::inherit_mut(&mut self) -> &mut Active<Unknown>
VertexArrayInheritMut ==
  /\ Running
  /\ "vertex_array" \in focus
  /\ CanMut("vertex_array")
  /\ tok' = [tok EXCEPT !["vertex_array"] = Token("Unknown", "-", "inherit_mut")]
  /\ Report("inherit_mut", {"vertex_array"}, <<>>, Lent("Unknown", "-"))
  /\ touched' = NoTouch
  /\ UNCHANGED <<cfgVars, shared, bound, vaoElem, bufVars, vao, fbVars, progVars, texVars>>

\* The vertex array or program token is one whose type says an object is
\* bound.
HoldsBound(s) ==
  /\ Running
  /\ s \in focus
  /\ tok[s].def = "NotDefault"

\* Option<bool>
Options == {"None", "Some(true)", "Some(false)"}

\* gl::EnableVertexAttribArray / gl::DisableVertexAttribArray
EnableCall(enabled) ==
  Call(IF enabled THEN "EnableVertexAttribArray" ELSE "DisableVertexAttribArray", "vertex_array", 0)

\* vertex_array::AttributeType: how the components are read in the shader
\* and the IntegerAttribute, PackedIntegerAttribute or FloatingAttribute
\* they are fetched as.
AttributeTypes ==
  ({"Integer", "Scaled", "Normalized"} \X {"U8", "I8", "U16", "I16", "U32", "I32"})
    \cup ({"PackedScaled", "PackedNormalized"} \X {"IReverse2_10_10_10", "UReverse2_10_10_10"})
    \cup ({"Float"} \X {"F16", "F32", "Fixed16_16"})

\* Every type fetched byte by byte.
align_of_bytes(ty) == 1

\* AttributeType::align_of through the align_of of the three enums:
\* std::mem::align_of of u8/i8, of u16/i16 (and of u16 for F16), of
\* u32/i32/f32 (and of u32 for Fixed16_16 and the packed formats).
align_of(ty) ==
  CASE ty[2] \in {"U8", "I8"} -> 1
    [] ty[2] \in {"U16", "I16", "F16"} -> 2
    [] ty[2] \in {"U32", "I32", "F32", "Fixed16_16", "IReverse2_10_10_10", "UReverse2_10_10_10"} -> 4

\* Attribute::stride, an Option<NonZero<usize>>: none, one that fits the
\* driver's GLsizei and one beyond i32::MAX.
Strides == {"None", "Some(4)", "Some(2^31)"}

\* stride.map_or(0, |stride| stride.get().try_into().unwrap()): the
\* conversion of usize to i32 fails beyond i32::MAX and unwrap panics.
stride_fits(stride) == stride # "Some(2^31)"

\* The inputs of attribute.
AttributeArgs(ty, stride, offset, enable) ==
  [ty |-> ty, stride |-> stride, offset |-> offset, enable |-> enable]

\* gl::VertexAttribIPointer for AttributeType::Integer, gl::VertexAttribPointer
\* for every other type, with normalized set for the two normalized types;
\* the offset goes in the pointer argument.
PointerCall(ty, offset) ==
  [Call(IF ty[1] = "Integer" THEN "VertexAttribIPointer" ELSE "VertexAttribPointer",
        "vertex_array", offset)
     EXCEPT !.flags = IF ty[1] \in {"Normalized", "PackedNormalized"} THEN {"normalized"} ELSE {},
            !.src = ty[2]]

\* attribute without the token of a bound array buffer.
AttributeUnsourced(ty, stride, offset, enable) ==
  /\ HoldsBound("vertex_array")
  /\ args' = AttributeArgs(ty, stride, offset, enable)
  /\ Returned("attribute", {"vertex_array"}, <<PointerCall(ty, offset)>>, NoRet)
  /\ touched' = NoTouch
  /\ UNCHANGED <<cfgVars, slotVars, bound, vaoElem, bufVars, vao, fbVars, progVars, texVars>>

\* Active<NotDefault>::attribute(&mut self, &buffer::Active<Array, NotDefault>,
\* index, attribute, enable): the stride is converted, the offset's alignment
\* is asserted, the pointer call is issued, then set_attribute_enabled for
\* Some(enable).
Attribute(ty, stride, offset, enable) ==
  /\ HoldsBound("vertex_array")
  /\ HoldsBuffer("array")
  /\ args' = AttributeArgs(ty, stride, offset, enable)
  /\ Returned("attribute", {"vertex_array", "array"},
              IF ~stride_fits(stride) \/ offset % align_of(ty) # 0 THEN <<>>
              ELSE <<PointerCall(ty, offset)>>
                     \o (IF enable = "None" THEN <<>> ELSE <<EnableCall(enable = "Some(true)")>>),
              IF stride_fits(stride) /\ offset % align_of(ty) = 0 THEN NoRet ELSE Panic)
  /\ touched' = NoTouch
  /\ UNCHANGED <<cfgVars, slotVars, bound, vaoElem, bufVars, vao, fbVars, progVars, texVars>>

\* Active<NotDefault>::set_attribute_enabled(&mut self, index, enabled)
SetAttributeEnabled(enabled) ==
  /\ HoldsBound("vertex_array")
  /\ Report("set_attribute_enabled", {"vertex_array"}, <<EnableCall(enabled)>>, NoRet)
  /\ touched' = NoTouch
  /\ UNCHANGED <<cfgVars, slotVars, bound, vaoElem, bufVars, vao, fbVars, progVars, texVars>>

\* Slot::delete(&mut self, [VertexArray; N]): a deleted array that was bound
\* leaves the default array bound.
DeleteVertexArrays(S) ==
  /\ Running
  /\ "vertex_array" \in focus
  /\ CanMut("vertex_array")
  /\ \A n \in S : vao[n] = "VertexArray"
  /\ vao' = [n \in Single |-> IF n \in S THEN "deleted" ELSE vao[n]]
  /\ bound' = [bound EXCEPT !["vertex_array"] = IF @ \in S THEN 0 ELSE @]
  /\ vaoElem' = [v \in DOMAIN vaoElem |-> IF v \in S THEN 0 ELSE vaoElem[v]]
  /\ gl_delete_with("delete", {"vertex_array"}, "DeleteVertexArrays", S)
  /\ touched' = NoTouch
  /\ UNCHANGED <<cfgVars, tok, shared, bufVars, fbVars, progVars, texVars>>

\* ------------------------------------------------------------ program slot
ShaderTypes == {"vertex", "fragment"}
\* Shader and program objects share one name space in the driver.
ShaderName(ty) == IF ty = "vertex" THEN 2 ELSE 3

\* Create::program(): CreateProgram, a zero name panics.
CreateProgram(n, driverOk) ==
  /\ Running
  /\ "program" \in focus
  /\ prog[n] = "none"
  /\ prog' = IF driverOk THEN [prog EXCEPT ![n] = "Program"] ELSE prog
  /\ Report("program", {}, <<CallOut("CreateProgram", "-", 0, IF driverOk THEN "names" ELSE "zero")>>,
            IF driverOk THEN [res |-> "Ok", name |-> n, tag |-> "Program", kind |-> "-"] ELSE Panic)
  /\ touched' = NoTouch
  /\ UNCHANGED <<cfgVars, slotVars, bound, vaoElem, bufVars, vao, fbVars, shader, linked, attached, texVars>>

\* Create::shader::<Ty>(): CreateShader, a zero name panics.
CreateShader(ty, driverOk) ==
  /\ Running
  /\ "program" \in focus
  /\ shader[ty] = "none"
  /\ shader' = IF driverOk THEN [shader EXCEPT ![ty] = "EmptyShader"] ELSE shader
  /\ Report("shader", {}, <<CallOut("CreateShader", ty, 0, IF driverOk THEN "names" ELSE "zero")>>,
            IF driverOk THEN [res |-> "Ok", name |-> ShaderName(ty), tag |-> "EmptyShader", kind |-> "-"]
                        ELSE Panic)
  /\ touched' = NoTouch
  /\ UNCHANGED <<cfgVars, slotVars, bound, vaoElem, bufVars, vao, fbVars, prog, linked, attached, texVars>>

\* Slot::compile(&self, EmptyShader<Ty>, &str)
Compile(ty, driverOk) ==
  /\ Running
  /\ "program" \in focus
  /\ CanRef("program")
  /\ shader[ty] = "EmptyShader"
  /\ shader' = IF driverOk THEN [shader EXCEPT ![ty] = "CompiledShader"] ELSE shader
  /\ Taken("compile", {"program"},
           <<Call("ShaderSource", ty, ShaderName(ty)), Call("CompileShader", ty, ShaderName(ty)),
             CallOut("GetShaderiv", ty, ShaderName(ty), GLboolean(driverOk))>>,
           IF driverOk
             THEN Retyped(ShaderName(ty), "CompiledShader")
             ELSE HandedBack(ShaderName(ty), "EmptyShader", "CompileError"),
           ShaderName(ty))
  /\ touched' = NoTouch
  /\ UNCHANGED <<cfgVars, slotVars, bound, vaoElem, bufVars, vao, fbVars, prog, linked, attached, texVars>>

\* From<CompiledShader<Ty>> for EmptyShader<Ty>
ShaderFromCompiled(ty) ==
  /\ Running
  /\ "program" \in focus
  /\ shader[ty] = "CompiledShader"
  /\ shader' = [shader EXCEPT ![ty] = "EmptyShader"]
  /\ Taken("from", {}, <<>>, Retyped(ShaderName(ty), "EmptyShader"), ShaderName(ty))
  /\ touched' = NoTouch
  /\ UNCHANGED <<cfgVars, slotVars, bound, vaoElem, bufVars, vao, fbVars, prog, linked, attached, texVars>>

\* The driver's AttachShader and DetachShader: what is attached to a
\* program after a sequence of calls.
RECURSIVE AttachedAfter(_, _)
AttachedAfter(att, cs) ==
  IF cs = <<>> THEN att
  ELSE AttachedAfter(CASE Head(cs).f = "AttachShader" -> att \cup {Head(cs).target}
                       [] Head(cs).f = "DetachShader" -> att \ {Head(cs).target}
                       [] OTHER -> att,
                     Tail(cs))

\* A link that would detach the shaders of a linked program only.
LinkCallsKeepingFailed(n, driverOk) ==
  <<Call("AttachShader", "vertex", n), Call("AttachShader", "fragment", n),
    Call("LinkProgram", "-", n), CallOut("GetProgramiv", "-", n, GLboolean(driverOk))>>
    \o (IF driverOk THEN <<Call("DetachShader", "vertex", n), Call("DetachShader", "fragment", n)>>
                    ELSE <<>>)

\* The driver calls of link, in the order of the unsafe block: the two
\* AttachShader, LinkProgram, GetProgramiv(LINK_STATUS), the two DetachShader.
LinkCalls(n, driverOk) ==
  <<Call("AttachShader", "vertex", n), Call("AttachShader", "fragment", n),
    Call("LinkProgram", "-", n), CallOut("GetProgramiv", "-", n, GLboolean(driverOk)),
    Call("DetachShader", "vertex", n), Call("DetachShader", "fragment", n)>>

\* Slot::link(&self, Program, ProgramShaders): attach, link, query, detach.
Link(n, driverOk) ==
  /\ Running
  /\ "program" \in focus
  /\ CanRef("program")
  /\ prog[n] = "Program"
  /\ \A ty \in ShaderTypes : shader[ty] = "CompiledShader"
  /\ prog' = IF driverOk THEN [prog EXCEPT ![n] = "LinkedProgram"] ELSE prog
  /\ linked' = [linked EXCEPT ![n] = driverOk]
  /\ attached' = [attached EXCEPT ![n] = AttachedAfter(@, LinkCalls(n, driverOk))]
  /\ Taken("link", {"program"}, LinkCalls(n, driverOk),
           IF driverOk THEN Retyped(n, "LinkedProgram") ELSE HandedBack(n, "Program", "LinkError"),
           n)
  /\ touched' = NoTouch
  /\ UNCHANGED <<cfgVars, slotVars, bound, vaoElem, bufVars, vao, fbVars, shader, texVars>>

\* From<LinkedProgram> for Program
ProgramFromLinked(n) ==
  /\ Running
  /\ "program" \in focus
  /\ prog[n] = "LinkedProgram"
  /\ prog' = [prog EXCEPT ![n] = "Program"]
  /\ Taken("from", {}, <<>>, Retyped(n, "Program"), n)
  /\ touched' = NoTouch
  /\ UNCHANGED <<cfgVars, slotVars, bound, vaoElem, bufVars, vao, fbVars, shader, linked, attached, texVars>>

\* ThinGLObject::into_name(self) on a program handle: the name leaves the
\* typestate and the handle is forgotten.
IntoName(n) ==
  /\ Running
  /\ "program" \in focus
  /\ prog[n] \in {"Program", "LinkedProgram"}
  /\ prog' = [prog EXCEPT ![n] = "forgotten"]
  /\ Taken("into_name", {}, <<>>, Retyped(n, "NonZeroName"), n)
  /\ touched' = NoTouch
  /\ UNCHANGED <<cfgVars, slotVars, bound, vaoElem, bufVars, vao, fbVars, shader, linked, attached, texVars>>

\* Slot::bind(&mut self, &LinkedProgram) -> &mut Active<NotDefault>
ProgramBind(n) ==
  /\ Running
  /\ "program" \in focus
  /\ CanMut("program")
  /\ prog[n] = "LinkedProgram"
  /\ bound' = [bound EXCEPT !["program"] = n]
  /\ tok' = [tok EXCEPT !["program"] = Token("NotDefault", "-", "bind")]
  /\ Taken("bind", {"program"}, <<Call("UseProgram", "program", n)>>, NoRet, n)
  /\ touched' = NoTouch
  /\ UNCHANGED <<cfgVars, shared, vaoElem, bufVars, vao, fbVars, progVars, texVars>>

\* Slot::unbind(&mut self) -> &mut Active<IsDefault>
ProgramUnbind ==
  /\ Running
  /\ "program" \in focus
  /\ CanMut("program")
  /\ bound' = [bound EXCEPT !["program"] = 0]
  /\ tok' = [tok EXCEPT !["program"] = Token("IsDefault", "-", "unbind")]
  /\ Report("unbind", {"program"}, <<Call("UseProgram", "program", 0)>>, NoRet)
  /\ touched' = NoTouch
  /\ UNCHANGED <<cfgVars, shared, vaoElem, bufVars, vao, fbVars, progVars, texVars>>

\* Slot::inherit(&self) -> &Active<Unknown>
ProgramInherit ==
  /\ Running
  /\ "program" \in focus
  /\ CanRef("program")
  /\ shared["program"] < MaxShared
  /\ shared' = [shared EXCEPT !["program"] = @ + 1]
  /\ Report("inherit", {"program"}, <<>>, Lent("Unknown", "-"))
  /\ touched' = NoTouch
  /\ UNCHANGED <<cfgVars, tok, bound, vaoElem, bufVars, vao, fbVars, progVars, texVars>>

\* Slot::inherit_mut(&mut self) -> &mut Active<Unknown>
ProgramInheritMut ==
  /\ Running
  /\ "program" \in focus
  /\ CanMut("program")
  /\ tok' = [tok EXCEPT !["program"] = Token("Unknown", "-", "inherit_mut")]
  /\ Report("inherit_mut", {"program"}, <<>>, Lent("Unknown", "-"))
  /\ touched' = NoTouch
  /\ UNCHANGED <<cfgVars, shared, bound, vaoElem, bufVars, vao, fbVars, progVars, texVars>>

\* Active<NotDefault>::uniform(&mut self, base_location, value): an empty
\* value returns early, else one Uniform*v call.
Uniform(empty) ==
  /\ HoldsBound("program")
  /\ Report("uniform", {"program"},
            IF empty THEN <<>> ELSE <<Call("Uniform", "program", 0)>>, NoRet)
  /\ touched' = NoTouch
  /\ UNCHANGED <<cfgVars, slotVars, bound, vaoElem, bufVars, vao, fbVars, progVars, texVars>>

\* Active<NotDefault>::uniform_matrix(&mut self, base_location, value)
UniformMatrix(empty) ==
  /\ HoldsBound("program")
  /\ Report("uniform_matrix", {"program"},
            IF empty THEN <<>> ELSE <<Call("UniformMatrix", "program", 0)>>, NoRet)
  /\ touched' = NoTouch
  /\ UNCHANGED <<cfgVars, slotVars, bound, vaoElem, bufVars, vao, fbVars, progVars, texVars>>

\* Slot::delete(&self, Program): the driver defers the deletion of a program
\* in use, so the binding stays.
DeleteProgram(n) ==
  /\ Running
  /\ "program" \in focus
  /\ CanRef("program")
  /\ prog[n] = "Program"
  /\ prog' = [prog EXCEPT ![n] = "deleted"]
  /\ Report("delete", {"program"}, <<Call("DeleteProgram", "-", n)>>, NoRet)
  /\ touched' = NoTouch
  /\ UNCHANGED <<cfgVars, slotVars, bound, vaoElem, bufVars, vao, fbVars, shader, linked, attached, texVars>>

\* Slot::delete_shader(&self, EmptyShader<Ty>)
DeleteShader(ty) ==
  /\ Running
  /\ "program" \in focus
  /\ CanRef("program")
  /\ shader[ty] = "EmptyShader"
  /\ shader' = [shader EXCEPT ![ty] = "deleted"]
  /\ Report("delete_shader", {"program"}, <<Call("DeleteShader", ty, ShaderName(ty))>>, NoRet)
  /\ touched' = NoTouch
  /\ UNCHANGED <<cfgVars, slotVars, bound, vaoElem, bufVars, vao, fbVars, prog, linked, attached, texVars>>

\* ----------------------------------------------------------- texture slots
\* Create::textures::<N>()
GenTextures(N, zeroed) ==
  /\ Running
  /\ focus \cap TexSlots # {}
  /\ N <= Cardinality(Free(tex))
  /\ zeroed => N > 0
  /\ tex' = Generated(tex, N, zeroed, "Stateless")
  /\ gl_gen_with("textures", "GenTextures", N, zeroed)
  /\ touched' = NoTouch
  /\ UNCHANGED <<cfgVars, slotVars, bound, vaoElem, bufVars, vao, fbVars, progVars, unit, parked>>

\* New::delete_textures(&self, [Stateless; N])
DeleteStateless(S) ==
  /\ Running
  /\ focus \cap TexSlots # {}
  /\ \A n \in S : tex[n] = "Stateless"
  /\ tex' = [n \in Single |-> IF n \in S THEN "deleted" ELSE tex[n]]
  /\ gl_delete_with("delete_textures", {}, "DeleteTextures", S)
  /\ touched' = NoTouch
  /\ UNCHANGED <<cfgVars, slotVars, bound, vaoElem, bufVars, vao, fbVars, progVars, unit, parked>>

\* New::render_buffers::<N>(): the handles are taken by no operation modelled
\* here and are not kept.
GenRenderbuffers(N, zeroed) ==
  /\ Running
  /\ zeroed => N > 0
  /\ gl_gen_with("render_buffers", "GenRenderbuffers", N, zeroed)
  /\ touched' = NoTouch
  /\ UNCHANGED <<cfgVars, slotVars, bound, vaoElem, bufVars, vao, fbVars, progVars, texVars>>

\* Texture<Dim> of the slot's dimensionality.
Dim(s) == IF s = "d2" THEN "Texture2D" ELSE "Texture3D"

\* Slot::initialize(&mut self, Stateless) -> (Texture<Dim>, &mut Active<Dim>)
TextureInitialize(s, n) ==
  /\ Running
  /\ s \in focus \cap TexSlots
  /\ CanMut(s)
  /\ tex[n] = "Stateless"
  /\ tex' = [tex EXCEPT ![n] = Dim(s)]
  /\ bound' = [bound EXCEPT ![s] = n]
  /\ tok' = [tok EXCEPT ![s] = Token("Untagged", "-", "bind")]
  /\ Taken("initialize", {s}, <<Call("BindTexture", s, n)>>, Retyped(n, Dim(s)), n)
  /\ touched' = NoTouch
  /\ UNCHANGED <<cfgVars, shared, vaoElem, bufVars, vao, fbVars, progVars, unit, parked>>

\* Slot::bind(&mut self, &Texture<Dim>) -> &mut Active<Dim>
TextureBind(s, n) ==
  /\ Running
  /\ s \in focus \cap TexSlots
  /\ CanMut(s)
  /\ tex[n] = Dim(s)
  /\ bound' = [bound EXCEPT ![s] = n]
  /\ tok' = [tok EXCEPT ![s] = Token("Untagged", "-", "bind")]
  /\ Taken("bind", {s}, <<Call("BindTexture", s, n)>>, NoRet, n)
  /\ touched' = NoTouch
  /\ UNCHANGED <<cfgVars, shared, vaoElem, bufVars, vao, fbVars, progVars, texVars>>

\* Slot::inherit(&self) -> &Active<Dim>
TextureInherit(s) ==
  /\ Running
  /\ s \in focus \cap TexSlots
  /\ CanRef(s)
  /\ shared[s] < MaxShared
  /\ shared' = [shared EXCEPT ![s] = @ + 1]
  /\ Report("inherit", {s}, <<>>, Lent("Untagged", "-"))
  /\ touched' = NoTouch
  /\ UNCHANGED <<cfgVars, tok, bound, vaoElem, bufVars, vao, fbVars, progVars, texVars>>

\* Slot::inherit_mut(&mut self) -> &mut Active<Dim>
TextureInheritMut(s) ==
  /\ Running
  /\ s \in focus \cap TexSlots
  /\ CanMut(s)
  /\ tok' = [tok EXCEPT ![s] = Token("Untagged", "-", "inherit_mut")]
  /\ Report("inherit_mut", {s}, <<>>, Lent("Untagged", "-"))
  /\ touched' = NoTouch
  /\ UNCHANGED <<cfgVars, shared, bound, vaoElem, bufVars, vao, fbVars, progVars, texVars>>

\* Slot::delete(&mut self, [Texture<Dim>; N]): a deleted texture that was
\* bound leaves the default texture bound, on every texture unit.
DeleteTextures(s, S) ==
  /\ Running
  /\ s \in focus \cap TexSlots
  /\ CanMut(s)
  /\ \A n \in S : tex[n] = Dim(s)
  /\ tex' = [n \in Single |-> IF n \in S THEN "deleted" ELSE tex[n]]
  /\ bound' = [bound EXCEPT ![s] = IF @ \in S THEN 0 ELSE @]
  /\ parked' = [u \in Units |-> [t \in TexSlots |-> IF parked[u][t] \in S THEN 0 ELSE parked[u][t]]]
  /\ gl_delete_with("delete", {s}, "DeleteTextures", S)
  /\ touched' = NoTouch
  /\ UNCHANGED <<cfgVars, tok, shared, vaoElem, bufVars, vao, fbVars, progVars, unit>>

\* unit that would take the token of the 2D slot alone.
UnitOfOneSlot(slot, wraps) ==
  /\ Running
  /\ TexSlots \subseteq focus
  /\ CanMut("d2")
  /\ slot \in Units
  /\ unit' = slot
  /\ parked' = IF slot # unit
                 THEN [parked EXCEPT ![unit] = [s \in TexSlots |-> bound[s]], ![slot] = NoTextures]
                 ELSE parked
  /\ bound' = IF slot # unit
                THEN [s \in Slots |-> IF s \in TexSlots THEN parked[slot][s] ELSE bound[s]]
                ELSE bound
  /\ Report("unit", TexSlots, <<Call("ActiveTexture", "-", slot)>>, NoRet)
  /\ touched' = NoTouch
  /\ UNCHANGED <<cfgVars, slotVars, vaoElem, bufVars, vao, fbVars, progVars, tex>>

\* Slots::unit(&mut self, slot: u32) -> &mut Self:
\* gl::ActiveTexture(gl::TEXTURE0.checked_add(slot).unwrap()).  The sum
\* wraps for a slot near u32::MAX and unwrap panics; the driver rejects a
\* unit it does not have and leaves the active one; otherwise every texture
\* target shows what is bound to it on the new unit.
Unit(slot, wraps) ==
  /\ Running
  /\ TexSlots \subseteq focus
  /\ CanMutAll(TexSlots)
  /\ unit' = IF ~wraps /\ slot \in Units THEN slot ELSE unit
  /\ parked' = IF ~wraps /\ slot \in Units /\ slot # unit
                 THEN [parked EXCEPT ![unit] = [s \in TexSlots |-> bound[s]], ![slot] = NoTextures]
                 ELSE parked
  /\ bound' = IF ~wraps /\ slot \in Units /\ slot # unit
                THEN [s \in Slots |-> IF s \in TexSlots THEN parked[slot][s] ELSE bound[s]]
                ELSE bound
  /\ Report("unit", TexSlots,
            IF wraps THEN <<>>
            ELSE <<CallOut("ActiveTexture", "-", slot, IF slot \in Units THEN "-" ELSE "INVALID_ENUM")>>,
            IF wraps THEN Panic ELSE NoRet)
  /\ touched' = NoTouch
  /\ UNCHANGED <<cfgVars, slotVars, vaoElem, bufVars, vao, fbVars, progVars, tex>>

\* The largest mipmap level of the driver's default TEXTURE_MAX_LEVEL.
DefaultMaxLevel == 1000

\* Min, inclusive: 0 for an unbounded start, n for an included one,
\* n.saturating_add(1) for an excluded one (the levels drawn stay far below
\* u32::MAX, where the sum saturates).
MinLevel(b) ==
  CASE b.kind = "Unbounded" -> 0
    [] b.kind = "Excluded" -> b.x + 1
    [] b.kind = "Included" -> b.x

\* Max, also inclusive: 1000 for an unbounded end, n for an included one,
\* n.saturating_add(1) for an excluded one.
MaxLevel(b) ==
  CASE b.kind = "Unbounded" -> DefaultMaxLevel
    [] b.kind = "Excluded" -> b.x + 1
    [] b.kind = "Included" -> b.x

\* gl::TexParameteri(Dim::TARGET, pname, level)
LevelCall(s, pname, level) ==
  [Call("TexParameteri", s, level) EXCEPT !.flags = {pname}]

\* Active<Dim>::level_range(&mut self, impl RangeBounds<u32>) -> &mut Self
LevelRange(s, range) ==
  /\ Running
  /\ s \in focus \cap TexSlots
  /\ tok[s] # NoToken
  /\ args' = range
  /\ Returned("level_range", {s},
              <<LevelCall(s, "TEXTURE_BASE_LEVEL", MinLevel(range.lo)),
                LevelCall(s, "TEXTURE_MAX_LEVEL", MaxLevel(range.hi))>>,
              NoRet)
  /\ touched' = NoTouch
  /\ UNCHANGED <<cfgVars, slotVars, bound, vaoElem, bufVars, vao, fbVars, progVars, texVars>>

\* ------------------------------------------------------- framebuffer slots
\* A classification whose last arm is not a catch-all to Unspecified.
from_gl_two_arms(status) ==
  IF status = "FRAMEBUFFER_INCOMPLETE_ATTACHMENT" THEN "Attachment" ELSE "MissingAttachment"

\* IncompleteErrorKind::from_gl
from_gl(status) ==
  CASE status = "FRAMEBUFFER_INCOMPLETE_ATTACHMENT" -> "Attachment"
    [] status = "FRAMEBUFFER_INCOMPLETE_MISSING_ATTACHMENT" -> "MissingAttachment"
    [] status = "FRAMEBUFFER_UNSUPPORTED" -> "Unsupported"
    [] status = "FRAMEBUFFER_INCOMPLETE_MULTISAMPLE" -> "Multisample"
    [] status = "FRAMEBUFFER_INCOMPLETE_LAYER_TARGETS" -> "LayerTargets"
    [] OTHER -> "Unspecified"

\* The attachment configurations a framebuffer is put in by texture_2d, named
\* after what the driver makes of them.
TexConfigs == {"complete", "attachment", "dimensions"}

\* The driver's CheckFramebufferStatus on a target holding framebuffer n.
CheckFramebufferStatus(n) ==
  IF n = 0 THEN "FRAMEBUFFER_COMPLETE"
  ELSE CASE fbAtt[n] = "none" -> "FRAMEBUFFER_INCOMPLETE_MISSING_ATTACHMENT"
         [] fbAtt[n] = "complete" -> "FRAMEBUFFER_COMPLETE"
         [] fbAtt[n] = "attachment" -> "FRAMEBUFFER_INCOMPLETE_ATTACHMENT"
         [] OTHER -> "FRAMEBUFFER_INCOMPLETE_DIMENSIONS"

\* Create::framebuffers::<N>()
GenFramebuffers(N, zeroed) ==
  /\ Running
  /\ focus \cap FbSlots # {}
  /\ N <= Cardinality(Free(fb))
  /\ zeroed => N > 0
  /\ fb' = Generated(fb, N, zeroed, "Incomplete")
  /\ gl_gen_with("framebuffers", "GenFramebuffers", N, zeroed)
  /\ touched' = NoTouch
  /\ UNCHANGED <<cfgVars, slotVars, bound, vaoElem, bufVars, vao, fbAtt, verified, outcomes, progVars, texVars>>

\* Slot::bind(&mut self, &Incomplete) -> Active<T, NotDefault, Incomplete>
FramebufferBind(s, n) ==
  /\ Running
  /\ s \in focus \cap FbSlots
  /\ CanMut(s)
  /\ fb[n] = "Incomplete"
  /\ bound' = [bound EXCEPT ![s] = n]
  /\ tok' = [tok EXCEPT ![s] = Token("NotDefault", "Incomplete", "bind")]
  /\ Taken("bind", {s}, <<Call("BindFramebuffer", s, n)>>, NoRet, n)
  /\ touched' = NoTouch
  /\ UNCHANGED <<cfgVars, shared, vaoElem, bufVars, vao, fbVars, progVars, texVars>>

\* Slot::bind_complete(&mut self, &Complete) -> Active<T, NotDefault, Complete>
BindComplete(s, n) ==
  /\ Running
  /\ s \in focus \cap FbSlots
  /\ CanMut(s)
  /\ fb[n] = "Complete"
  /\ bound' = [bound EXCEPT ![s] = n]
  /\ tok' = [tok EXCEPT ![s] = Token("NotDefault", "Complete", "bind_complete")]
  /\ Taken("bind_complete", {s}, <<Call("BindFramebuffer", s, n)>>, NoRet, n)
  /\ touched' = NoTouch
  /\ UNCHANGED <<cfgVars, shared, vaoElem, bufVars, vao, fbVars, progVars, texVars>>

\* What try_complete makes of a status: Ok, or Err with the classified kind.
Outcome(status) == IF status = "FRAMEBUFFER_COMPLETE" THEN "Complete" ELSE from_gl(status)

\* A history with one more answer, cut to its last two.
LastTwo(h, o) == IF h = <<>> THEN <<o>> ELSE <<h[Len(h)], o>>

\* A try_complete that would promote the handle whatever the driver answers.
TryCompleteUnchecked(s, n) ==
  /\ Running
  /\ s \in focus \cap FbSlots
  /\ CanMut(s)
  /\ fb[n] = "Incomplete"
  /\ bound' = [bound EXCEPT ![s] = n]
  /\ outcomes' = [outcomes EXCEPT ![n] = LastTwo(@, "Complete")]
  /\ fb' = [fb EXCEPT ![n] = "Complete"]
  /\ verified' = [verified EXCEPT ![n] = TRUE]
  /\ tok' = [tok EXCEPT ![s] = Token("NotDefault", "Complete", "try_complete")]
  /\ ret' = Retyped(n, "Complete")
  /\ did' = Did("try_complete", {s})
  /\ args' = HandleArgs(n)
  /\ calls' = <<Call("BindFramebuffer", s, n),
               CallOut("CheckFramebufferStatus", s, 0, CheckFramebufferStatus(n))>>
  /\ touched' = NoTouch
  /\ UNCHANGED <<cfgVars, shared, vaoElem, bufVars, vao, fbAtt, progVars, texVars>>

\* Slot::try_complete(&mut self, Incomplete): bind, query, then promote the
\* handle or hand it back with the classified status.
TryComplete(s, n) ==
  /\ Running
  /\ s \in focus \cap FbSlots
  /\ CanMut(s)
  /\ fb[n] = "Incomplete"
  /\ bound' = [bound EXCEPT ![s] = n]
  /\ outcomes' = [outcomes EXCEPT ![n] = LastTwo(@, Outcome(CheckFramebufferStatus(n)))]
  /\ LET status == CheckFramebufferStatus(n) IN
       IF status = "FRAMEBUFFER_COMPLETE"
         THEN /\ fb' = [fb EXCEPT ![n] = "Complete"]
              /\ verified' = [verified EXCEPT ![n] = TRUE]
              /\ tok' = [tok EXCEPT ![s] = Token("NotDefault", "Complete", "try_complete")]
              /\ ret' = Retyped(n, "Complete")
         ELSE /\ UNCHANGED <<fb, verified>>
              /\ tok' = [tok EXCEPT ![s] = Token("NotDefault", "Incomplete", "try_complete")]
              /\ ret' = HandedBack(n, "Incomplete", from_gl(status))
  /\ did' = Did("try_complete", {s})
  /\ args' = HandleArgs(n)
  /\ calls' = <<Call("BindFramebuffer", s, n),
               CallOut("CheckFramebufferStatus", s, 0, CheckFramebufferStatus(n))>>
  /\ touched' = NoTouch
  /\ UNCHANGED <<cfgVars, shared, vaoElem, bufVars, vao, fbAtt, progVars, texVars>>

\* Slot::bind_default(&mut self) -> Active<T, IsDefault, Complete>
BindDefault(s) ==
  /\ Running
  /\ s \in focus \cap FbSlots
  /\ CanMut(s)
  /\ bound' = [bound EXCEPT ![s] = 0]
  /\ tok' = [tok EXCEPT ![s] = Token("IsDefault", "Complete", "bind_default")]
  /\ Report("bind_default", {s}, <<Call("BindFramebuffer", s, 0)>>, NoRet)
  /\ touched' = NoTouch
  /\ UNCHANGED <<cfgVars, shared, vaoElem, bufVars, vao, fbVars, progVars, texVars>>

\* Slot::inherit(&self) -> Active<T, Unknown, Unknown>
FramebufferInherit(s) ==
  /\ Running
  /\ s \in focus \cap FbSlots
  /\ CanRef(s)
  /\ shared[s] < MaxShared
  /\ shared' = [shared EXCEPT ![s] = @ + 1]
  /\ Report("inherit", {s}, <<>>, Lent("Unknown", "Unknown"))
  /\ touched' = NoTouch
  /\ UNCHANGED <<cfgVars, tok, bound, vaoElem, bufVars, vao, fbVars, progVars, texVars>>

\* Slots::bind(&mut self, &Incomplete): one bind to FRAMEBUFFER, two tokens.
SlotsBind(n) ==
  /\ Running
  /\ FbSlots \subseteq focus
  /\ CanMutAll(FbSlots)
  /\ fb[n] = "Incomplete"
  /\ bound' = [s \in Slots |-> IF s \in FbSlots THEN n ELSE bound[s]]
  /\ tok' = [s \in Slots |-> IF s \in FbSlots THEN Token("NotDefault", "Incomplete", "bind") ELSE tok[s]]
  /\ Taken("bind", FbSlots, <<Call("BindFramebuffer", "framebuffer", n)>>, NoRet, n)
  /\ touched' = NoTouch
  /\ UNCHANGED <<cfgVars, shared, vaoElem, bufVars, vao, fbVars, progVars, texVars>>

\* Slots::bind_complete(&mut self, &Complete)
SlotsBindComplete(n) ==
  /\ Running
  /\ FbSlots \subseteq focus
  /\ CanMutAll(FbSlots)
  /\ fb[n] = "Complete"
  /\ bound' = [s \in Slots |-> IF s \in FbSlots THEN n ELSE bound[s]]
  /\ tok' = [s \in Slots |-> IF s \in FbSlots THEN Token("NotDefault", "Complete", "bind_complete")
                                              ELSE tok[s]]
  /\ Taken("bind_complete", FbSlots, <<Call("BindFramebuffer", "framebuffer", n)>>, NoRet, n)
  /\ touched' = NoTouch
  /\ UNCHANGED <<cfgVars, shared, vaoElem, bufVars, vao, fbVars, progVars, texVars>>

\* Slots::bind_default(&mut self)
SlotsBindDefault ==
  /\ Running
  /\ FbSlots \subseteq focus
  /\ CanMutAll(FbSlots)
  /\ bound' = [s \in Slots |-> IF s \in FbSlots THEN 0 ELSE bound[s]]
  /\ tok' = [s \in Slots |-> IF s \in FbSlots THEN Token("IsDefault", "Complete", "bind_default")
                                              ELSE tok[s]]
  /\ Report("bind_default", FbSlots, <<Call("BindFramebuffer", "framebuffer", 0)>>, NoRet)
  /\ touched' = NoTouch
  /\ UNCHANGED <<cfgVars, shared, vaoElem, bufVars, vao, fbVars, progVars, texVars>>

\* Slots::delete(&mut self, [Incomplete; N]): a deleted framebuffer that was
\* bound leaves the default framebuffer bound.
DeleteFramebuffers(S) ==
  /\ Running
  /\ focus \cap FbSlots # {}
  /\ CanMutAll(FbSlots)
  /\ \A n \in S : fb[n] = "Incomplete"
  /\ fb' = [n \in Single |-> IF n \in S THEN "deleted" ELSE fb[n]]
  /\ fbAtt' = [n \in Single |-> IF n \in S THEN "none" ELSE fbAtt[n]]
  /\ verified' = [n \in Single |-> n \notin S /\ verified[n]]
  /\ outcomes' = [n \in Single |-> IF n \in S THEN <<>> ELSE outcomes[n]]
  /\ bound' = [s \in Slots |-> IF s \in FbSlots /\ bound[s] \in S THEN 0 ELSE bound[s]]
  /\ gl_delete_with("delete", FbSlots, "DeleteFramebuffers", S)
  /\ touched' = NoTouch
  /\ UNCHANGED <<cfgVars, tok, shared, vaoElem, bufVars, vao, progVars, texVars>>

\* A conversion that would hand back a framebuffer stripped of its attachments.
FromCompleteDetached(n) ==
  /\ Running
  /\ focus \cap FbSlots # {}
  /\ fb[n] = "Complete"
  /\ fb' = [fb EXCEPT ![n] = "Incomplete"]
  /\ fbAtt' = [fbAtt EXCEPT ![n] = "none"]
  /\ Taken("from", {}, <<>>, Retyped(n, "Incomplete"), n)
  /\ touched' = NoTouch
  /\ UNCHANGED <<cfgVars, slotVars, bound, vaoElem, bufVars, vao, verified, outcomes, progVars, texVars>>

\* From<Complete> for Incomplete: the same name, no driver call.
FramebufferFromComplete(n) ==
  /\ Running
  /\ focus \cap FbSlots # {}
  /\ fb[n] = "Complete"
  /\ fb' = [fb EXCEPT ![n] = "Incomplete"]
  /\ Taken("from", {}, <<>>, Retyped(n, "Incomplete"), n)
  /\ touched' = NoTouch
  /\ UNCHANGED <<cfgVars, slotVars, bound, vaoElem, bufVars, vao, fbAtt, verified, outcomes, progVars, texVars>>

\* Incomplete::into_complete_unchecked(self), by a caller that keeps its
\* safety precondition: CheckFramebufferStatus would return COMPLETE.
IntoCompleteUnchecked(n) ==
  /\ Running
  /\ focus \cap FbSlots # {}
  /\ fb[n] = "Incomplete"
  /\ CheckFramebufferStatus(n) = "FRAMEBUFFER_COMPLETE"
  /\ fb' = [fb EXCEPT ![n] = "Complete"]
  /\ Taken("into_complete_unchecked", {}, <<>>, Retyped(n, "Complete"), n)
  /\ touched' = NoTouch
  /\ UNCHANGED <<cfgVars, slotVars, bound, vaoElem, bufVars, vao, fbAtt, verified, outcomes, progVars, texVars>>

\* Active<T, NotDefault, Incomplete>::texture_2d(&self, &Texture2D, ..):
\* FramebufferTexture2D changes the framebuffer bound to the token's target.
Texture2d(s, cfg) ==
  /\ Running
  /\ s \in focus \cap FbSlots
  /\ tok[s].def = "NotDefault"
  /\ tok[s].comp = "Incomplete"
  /\ fbAtt' = IF bound[s] = 0 THEN fbAtt ELSE [fbAtt EXCEPT ![bound[s]] = cfg]
  /\ verified' = IF bound[s] = 0 THEN verified ELSE [verified EXCEPT ![bound[s]] = FALSE]
  /\ outcomes' = IF bound[s] = 0 THEN outcomes ELSE [outcomes EXCEPT ![bound[s]] = <<>>]
  /\ Report("texture_2d", {s}, <<Call("FramebufferTexture2D", s, bound[s])>>, NoRet)
  /\ touched' = NoTouch
  /\ UNCHANGED <<cfgVars, slotVars, bound, vaoElem, bufVars, vao, fb, progVars, texVars>>

\* Active<Draw, AnyDefaultness, Complete>::clear(&self, mask): an empty mask
\* returns early; Clear acts on the framebuffer bound to the draw target.
Clear(maskEmpty) ==
  /\ Running
  /\ tok["draw"].comp = "Complete"
  /\ Report("clear", {"draw"},
            IF maskEmpty THEN <<>> ELSE <<Call("Clear", "draw", bound["draw"])>>, NoRet)
  /\ touched' = NoTouch
  /\ UNCHANGED <<cfgVars, slotVars, bound, vaoElem, bufVars, vao, fbVars, progVars, texVars>>

\* framebuffer::Buffer and framebuffer::DefaultBuffer, fieldless enums.
Buffers == {"None", "ColorAttachment0", "ColorAttachment1", "ColorAttachment2", "ColorAttachment3"}
DefaultBuffers == {"None", "Back"}

\* The slices of at most MaxBuffers values of an enum.
Slices(values) == UNION {[1..n -> values] : n \in 0..MaxBuffers}

\* is_all_unique(slice): (1..slice.len()).all(|i| !slice[i..].contains(&slice[i - 1]))
is_all_unique(slice) ==
  \A i \in 1..(Len(slice) - 1) : \A j \in (i + 1)..Len(slice) : slice[j] # slice[i]

\* The values of a read_buffer or draw_buffers and the enum they are of.
BufferArgs(kind, buffers) == [kind |-> kind, buffers |-> buffers]

\* gl::DrawBuffers(buffers.len(), buffers.as_ptr()) and gl::ReadBuffer(buffer):
\* the driver sets the outputs of the framebuffer bound to the draw target,
\* the source of the one bound to the read target.
OutputCall(f, target, buffers) ==
  [Call(f, target, Len(buffers)) EXCEPT !.flags = {buffers[i] : i \in 1..Len(buffers)}]

\* The body of both draw_buffers: the assertion, then one DrawBuffers call.
SetDrawBuffers(kind, buffers) ==
  /\ args' = BufferArgs(kind, buffers)
  /\ Returned("draw_buffers", {"draw"},
              IF is_all_unique(buffers) THEN <<OutputCall("DrawBuffers", "draw", buffers)>> ELSE <<>>,
              IF is_all_unique(buffers) THEN NoRet ELSE Panic)
  /\ touched' = NoTouch
  /\ UNCHANGED <<cfgVars, slotVars, bound, vaoElem, bufVars, vao, fbVars, progVars, texVars>>

\* Active<Draw, NotDefault, AnyCompleteness>::draw_buffers(&self, &[Buffer])
DrawBuffers(buffers) ==
  /\ Running
  /\ "draw" \in focus
  /\ tok["draw"].def = "NotDefault"
  /\ SetDrawBuffers("Buffer", buffers)

\* Active<Draw, IsDefault, Complete>::draw_buffers(&self, &[DefaultBuffer])
DrawBuffersDefault(buffers) ==
  /\ Running
  /\ "draw" \in focus
  /\ tok["draw"].def = "IsDefault"
  /\ tok["draw"].comp = "Complete"
  /\ SetDrawBuffers("DefaultBuffer", buffers)

\* The body of both read_buffer: one ReadBuffer call.
SetReadBuffer(through, kind, buffer) ==
  /\ args' = BufferArgs(kind, <<buffer>>)
  /\ Returned("read_buffer", {through}, <<OutputCall("ReadBuffer", "read", <<buffer>>)>>, NoRet)
  /\ touched' = NoTouch
  /\ UNCHANGED <<cfgVars, slotVars, bound, vaoElem, bufVars, vao, fbVars, progVars, texVars>>

\* Active<Read, NotDefault, AnyCompleteness>::read_buffer(&self, Buffer)
ReadBuffer(buffer) ==
  /\ Running
  /\ "read" \in focus
  /\ tok["read"].def = "NotDefault"
  /\ SetReadBuffer("read", "Buffer", buffer)

\* Active<Draw, IsDefault, Complete>::read_buffer(&self, DefaultBuffer): the
\* impl is on the token of the draw slot.
ReadBufferDefault(buffer) ==
  /\ Running
  /\ "draw" \in focus
  /\ tok["draw"].def = "IsDefault"
  /\ tok["draw"].comp = "Complete"
  /\ SetReadBuffer("draw", "DefaultBuffer", buffer)

\* -------------------------------------------------------------- draw calls
\* A size that would count elements where the driver wants bytes.
size_of_element(ty) == 1

\* ElementType::size_of
size_of(ty) == CASE ty = "U8" -> 1 [] ty = "U16" -> 2 [] ty = "U32" -> 4

ElementTypes == {"U8", "U16", "U32"}

\* A subtraction that would wrap around where the checked one fails.
ReversedNever(start, end) == FALSE

\* `end.checked_sub(start)` is None: the range ends before it starts.
Reversed(start, end) == end < start

\* What a bundle would take were its fields tokens of any tag.
ArrayStateUntagged ==
  /\ tok["vertex_array"] # NoToken
  /\ tok["draw"] # NoToken
  /\ tok["program"] # NoToken

\* ArrayState: references to a NotDefault vertex array token, a Complete
\* draw framebuffer token of any defaultness and a NotDefault program token.
ArrayState ==
  /\ tok["vertex_array"].def = "NotDefault"
  /\ tok["draw"].comp = "Complete"
  /\ tok["program"].def = "NotDefault"

\* ElementState: ArrayState plus a reference to a NotDefault element array token.
ElementState ==
  /\ ArrayState
  /\ tok["element_array"].def = "NotDefault"
  /\ ~guard["element_array"].live

\* Draw::arrays without its early return: an empty range or a zero instance
\* count goes to the driver.
ArraysUnguarded(start, end, instances) ==
  /\ Running
  /\ ArrayState
  /\ args' = DrawArgs("-", start, end, instances)
  /\ IF Reversed(start, end)
       THEN Returned("arrays", {}, <<>>, Panic)
       ELSE IF instances = 1
         THEN Returned("arrays", {}, <<DrawCall("DrawArrays", end - start, start, 0)>>, NoRet)
         ELSE Returned("arrays", {},
                       <<DrawCall("DrawArraysInstanced", end - start, start, instances)>>, NoRet)
  /\ touched' = NoTouch
  /\ UNCHANGED <<cfgVars, slotVars, bound, vaoElem, bufVars, vao, fbVars, progVars, texVars>>

\* Draw::arrays(&self, mode, vertices, instances, ArrayState)
Arrays(start, end, instances) ==
  /\ Running
  /\ ArrayState
  /\ args' = DrawArgs("-", start, end, instances)
  /\ IF start = end \/ instances = 0
       THEN Returned("arrays", {}, <<>>, NoRet)
       ELSE IF Reversed(start, end)
         THEN Returned("arrays", {}, <<>>, Panic)
         ELSE IF instances = 1
           THEN Returned("arrays", {}, <<DrawCall("DrawArrays", end - start, start, 0)>>, NoRet)
           ELSE Returned("arrays", {},
                       <<DrawCall("DrawArraysInstanced", end - start, start, instances)>>, NoRet)
  /\ touched' = NoTouch
  /\ UNCHANGED <<cfgVars, slotVars, bound, vaoElem, bufVars, vao, fbVars, progVars, texVars>>

\* GL ES 3.0, 2.9.3: DrawArrays and DrawElements render as their instanced
\* forms do with an instance count of one.  What the driver renders for a
\* draw call: from which entry-point family, which vertices, how many times.
Rendered(c) ==
  [indexed |-> c.f \in {"DrawElements", "DrawElementsInstanced", "DrawRangeElements"},
   count |-> c.arg,
   off |-> c.off,
   instances |-> IF c.f \in {"DrawArraysInstanced", "DrawElementsInstanced"} THEN c.inst ELSE 1]

\* The driver call of `state.elements.len()`.
LenQuery == Call("GetBufferParameteri64v", "element_array", 0)

\* Draw::elements were it to take the non-instanced entry point for every
\* instance count.
ElementsNeverInstanced(ty, start, end, instances, junk) ==
  /\ Running
  /\ ElementState
  /\ junk \in Junk("element_array")
  /\ args' = DrawArgs(ty, start, end, instances)
  /\ IF start = end \/ instances = 0
       THEN Returned("elements", {}, <<>>, NoRet)
       ELSE IF Reversed(start, end)
         THEN Returned("elements", {}, <<>>, Panic)
         ELSE LET count == end - start
                  byte_offset == start * size_of(ty)
                  query == IF checked THEN <<LenQuery>> ELSE <<>>
              IN IF checked /\ byte_offset + count * size_of(ty) > QueriedLen("element_array", junk)
                   THEN Returned("elements", {}, query, Panic)
                   ELSE Returned("elements", {},
                                 query \o <<DrawCall("DrawElements", count, byte_offset, 0)>>, NoRet)
  /\ touched' = NoTouch
  /\ UNCHANGED <<cfgVars, slotVars, bound, vaoElem, bufVars, vao, fbVars, progVars, texVars>>

\* Draw::elements(&self, mode, element_type, elements, instances, ElementState)
Elements(ty, start, end, instances, junk) ==
  /\ Running
  /\ ElementState
  /\ junk \in Junk("element_array")
  /\ args' = DrawArgs(ty, start, end, instances)
  /\ IF start = end \/ instances = 0
       THEN Returned("elements", {}, <<>>, NoRet)
       ELSE IF Reversed(start, end)
         THEN Returned("elements", {}, <<>>, Panic)
         ELSE LET count == end - start
                  byte_offset == start * size_of(ty)
                  query == IF checked THEN <<LenQuery>> ELSE <<>>
              IN IF checked /\ byte_offset + count * size_of(ty) > QueriedLen("element_array", junk)
                   THEN Returned("elements", {}, query, Panic)
                   ELSE IF instances = 1
                     THEN Returned("elements", {},
                                 query \o <<DrawCall("DrawElements", count, byte_offset, 0)>>, NoRet)
                     ELSE Returned("elements", {},
                                 query \o <<DrawCall("DrawElementsInstanced", count, byte_offset,
                                                     instances)>>, NoRet)
  /\ touched' = NoTouch
  /\ UNCHANGED <<cfgVars, slotVars, bound, vaoElem, bufVars, vao, fbVars, progVars, texVars>>

\* Draw::ranged_elements with its debug_assertions block compiled out of
\* every build.
RangedElementsUnchecked(ty, start, end, junk) ==
  /\ Running
  /\ ElementState
  /\ junk \in Junk("element_array")
  /\ args' = DrawArgs(ty, start, end, 1)
  /\ IF start = end
       THEN Returned("ranged_elements", {}, <<>>, NoRet)
       ELSE IF Reversed(start, end)
         THEN Returned("ranged_elements", {}, <<>>, Panic)
         ELSE Returned("ranged_elements", {},
                       <<DrawCall("DrawRangeElements", end - start, start * size_of(ty), 0)>>, NoRet)
  /\ touched' = NoTouch
  /\ UNCHANGED <<cfgVars, slotVars, bound, vaoElem, bufVars, vao, fbVars, progVars, texVars>>

\* Draw::ranged_elements(&self, mode, element_type, elements, index_range,
\* ElementState); index_range is handed to the driver as it is.
RangedElements(ty, start, end, junk) ==
  /\ Running
  /\ ElementState
  /\ junk \in Junk("element_array")
  /\ args' = DrawArgs(ty, start, end, 1)
  /\ IF start = end
       THEN Returned("ranged_elements", {}, <<>>, NoRet)
       ELSE IF Reversed(start, end)
         THEN Returned("ranged_elements", {}, <<>>, Panic)
         ELSE LET count == end - start
                  byte_offset == start * size_of(ty)
                  query == IF checked THEN <<LenQuery>> ELSE <<>>
              IN IF checked /\ byte_offset + count * size_of(ty) > QueriedLen("element_array", junk)
                   THEN Returned("ranged_elements", {}, query, Panic)
                   ELSE Returned("ranged_elements", {},
                               query \o <<DrawCall("DrawRangeElements", count, byte_offset, 0)>>,
                               NoRet)
  /\ touched' = NoTouch
  /\ UNCHANGED <<cfgVars, slotVars, bound, vaoElem, bufVars, vao, fbVars, progVars, texVars>>

\* ------------------------------------------------------------------- spec
\* GLHF::current() on a fresh context: nothing allocated, every binding zero.
Blank ==
  /\ tok = [s \in Slots |-> NoToken]
  /\ shared = [s \in Slots |-> 0]
  /\ bound = [s \in Slots |-> 0]
  /\ vaoElem = [v \in {0} \cup Single |-> 0]
  /\ mapped = [n \in Names |-> FALSE]
  /\ guard = [s \in BufSlots |-> NoGuard]
  /\ verified = [n \in Single |-> FALSE]
  /\ outcomes = [n \in Single |-> <<>>]
  /\ tex = [n \in Single |-> "none"]
  /\ unit = 0
  /\ parked = [u \in Units |-> NoTextures]
  /\ calls = <<>>
  /\ ret = NoRet
  /\ did = Did("-", {})
  /\ args = NoArgs
  /\ touched = NoTouch

Init ==
  /\ Blank
  /\ focus \in Clusters
  /\ checked = TRUE
  /\ buf = [n \in Names |-> "none"]
  /\ bufLen = [n \in Names |-> 0]
  /\ store = [n \in Names |-> Payload(bufLen[n])]
  /\ wrote = [n \in Names |-> NoWrite]
  /\ vao = [n \in Single |-> "none"]
  /\ fb = [n \in Single |-> "none"]
  /\ fbAtt = [n \in Single |-> "none"]
  /\ prog = [n \in Single |-> "none"]
  /\ linked = [n \in Single |-> FALSE]
  /\ attached = [n \in Single |-> {}]
  /\ shader = [ty \in ShaderTypes |-> "none"]

SlotStep ==
  \/ \E s \in BufSlots, n \in Names : BufferBind(s, n)
  \/ \E s \in BufSlots : BufferUnbind(s)
  \/ \E s \in BufSlots : BufferInherit(s)
  \/ \E s \in BufSlots : BufferInheritMut(s)
  \/ \E n \in Single : VertexArrayBind(n)
  \/ VertexArrayUnbind
  \/ VertexArrayInherit
  \/ VertexArrayInheritMut
  \/ \E n \in Single : ProgramBind(n)
  \/ ProgramUnbind
  \/ ProgramInherit
  \/ ProgramInheritMut
  \/ \E n \in Single, ok \in BOOLEAN : Link(n, ok)
  \/ \E n \in Single : ProgramFromLinked(n)
  \/ \E n \in Single : IntoName(n)
  \/ \E s \in FbSlots, n \in Single : FramebufferBind(s, n)
  \/ \E s \in FbSlots, n \in Single : BindComplete(s, n)
  \/ \E s \in FbSlots, n \in Single : TryComplete(s, n)
  \/ \E s \in FbSlots : BindDefault(s)
  \/ \E s \in FbSlots : FramebufferInherit(s)
  \/ \E n \in Single : FramebufferFromComplete(n)
  \/ \E n \in Single : IntoCompleteUnchecked(n)
  \/ \E s \in Slots : DropToken(s)
  \/ \E s \in Slots : DropShared(s)

Next ==
  \/ SlotStep
  \/ \E zeroed \in BOOLEAN : GenBuffers(NObj, zeroed)
  \/ DeleteBuffers(Names)
  \/ \E s \in BufSlots, n \in {0, MaxLen} : Data(s, n)
  \/ \E s \in BufSlots, off \in 0..1, n \in 0..MaxLen : SubData(s, off, n)
  \/ \E s \in BufSlots, o \in BufSlots, w \in 0..1, n \in 0..1 : CopyFrom(s, o, 0, w, n)
  \/ \E s \in BufSlots, o \in BufSlots, w \in 0..1, n \in 0..1 : CopyTo(s, o, 0, w, n)
  \/ \E s \in BufSlots, w \in 0..1, n \in 0..1 : CopySelf(s, 0, w, n)
  \/ \E s \in BufSlots, junk \in 0..MaxLen : ActiveLen(s, junk)
  \/ \E s \in BufSlots, a \in {"Read", "ReadWrite"}, range \in Ranges, ok \in BOOLEAN :
       Map(s, a, range, ok, 0)
  \* (an explicit unmap over a driver that loses the mapped store is part of
  \* SpecMap and SpecTrip; here the driver refuses an unmap only when nothing
  \* is mapped)
  \/ \E s \in BufSlots : Unmap(s, TRUE)
  \/ \E s \in BufSlots, ok \in BOOLEAN : DropGuard(s, ok)
  \/ \E zeroed \in BOOLEAN : GenVertexArrays(1, zeroed)
  \/ DeleteVertexArrays(Single)
  \/ \E n \in Single, ok \in BOOLEAN : CreateProgram(n, ok)
  \/ \E ty \in ShaderTypes, ok \in BOOLEAN : CreateShader(ty, ok)
  \/ \E ty \in ShaderTypes, ok \in BOOLEAN : Compile(ty, ok)
  \/ \E ty \in ShaderTypes : ShaderFromCompiled(ty)
  \/ \E n \in Single : DeleteProgram(n)
  \/ \E ty \in ShaderTypes : DeleteShader(ty)
  \/ \E zeroed \in BOOLEAN : GenTextures(1, zeroed)
  \/ \E s \in TexSlots, n \in Single : TextureInitialize(s, n)
  \/ \E s \in TexSlots, n \in Single : TextureBind(s, n)
  \/ \E s \in TexSlots : TextureInherit(s)
  \/ \E s \in TexSlots : TextureInheritMut(s)
  \/ \E s \in TexSlots : DeleteTextures(s, Single)
  \/ \E zeroed \in BOOLEAN : GenFramebuffers(1, zeroed)
  \/ \E n \in Single : SlotsBind(n)
  \/ \E n \in Single : SlotsBindComplete(n)
  \/ SlotsBindDefault
  \/ DeleteFramebuffers(Single)
  \/ \E s \in FbSlots, cfg \in TexConfigs : Texture2d(s, cfg)
  \/ \E e \in BOOLEAN : Clear(e)

Spec == Init /\ [][Next]_vars

\* A client in its render loop.  Buffers with index data, a vertex array, a
\* framebuffer with a usable attachment, a program and its compiled shaders
\* are allocated.  The client works on the slots in focus; for the other two
\* slots a draw needs it has bound its objects and holds the tokens.
DrawClusters == { {"element_array", "vertex_array"}, {"draw", "program"} }

Held(s) == s \in DrawSlots \ focus

InitDraw ==
  /\ focus \in DrawClusters
  /\ checked \in BOOLEAN
  /\ tok = [s \in Slots |->
              IF ~Held(s) THEN NoToken
              ELSE IF s = "draw" THEN Token("NotDefault", "Complete", "try_complete")
              ELSE Token("NotDefault", "-", "bind")]
  /\ shared = [s \in Slots |-> 0]
  /\ bound = [s \in Slots |-> IF Held(s) /\ s # "element_array" THEN 1 ELSE 0]
  /\ vaoElem = [v \in {0} \cup Single |-> IF Held("element_array") /\ v = 1 THEN 1 ELSE 0]
  /\ buf = [n \in Names |-> "Buffer"]
  /\ bufLen = [n \in Names |-> MaxLen]
  /\ store = [n \in Names |-> Payload(bufLen[n])]
  /\ wrote = [n \in Names |-> NoWrite]
  /\ mapped = [n \in Names |-> FALSE]
  /\ guard = [s \in BufSlots |-> NoGuard]
  /\ vao = [n \in Single |-> "VertexArray"]
  /\ fb = [n \in Single |-> IF Held("draw") THEN "Complete" ELSE "Incomplete"]
  /\ fbAtt = [n \in Single |-> "complete"]
  /\ verified = [n \in Single |-> Held("draw")]
  /\ outcomes = [n \in Single |-> IF Held("draw") THEN <<"Complete">> ELSE <<>>]
  /\ prog = [n \in Single |-> IF Held("program") THEN "LinkedProgram" ELSE "Program"]
  /\ linked = [n \in Single |-> Held("program")]
  /\ attached = [n \in Single |-> {}]
  /\ shader = [ty \in ShaderTypes |-> "CompiledShader"]
  /\ tex = [n \in Single |-> "none"]
  /\ unit = 0
  /\ parked = [u \in Units |-> NoTextures]
  /\ calls = <<>>
  /\ ret = NoRet
  /\ did = Did("-", {})
  /\ args = NoArgs
  /\ touched = NoTouch

NextDraw ==
  \/ SlotStep
  \/ \E start \in 0..2, end \in 0..MaxLen, i \in 0..2 : Arrays(start, end, i)
  \* (indices of every element type are drawn in SpecIndexed; a U32 index
  \* does not fit the buffers of this client)
  \/ \E ty \in {"U8", "U16"}, start \in 0..2, end \in 0..MaxLen, i \in 0..2, junk \in 0..MaxLen :
       Elements(ty, start, end, i, junk)
  \/ \E ty \in {"U8", "U16"}, start \in 0..2, end \in 0..MaxLen, junk \in 0..MaxLen :
       RangedElements(ty, start, end, junk)
  \/ \E e \in BOOLEAN : Clear(e)

SpecDraw == InitDraw /\ [][NextDraw]_vars

\* A client that has bound all a draw needs, holds the four tokens and issues
\* indexed draws over an index buffer large enough for MaxIndex elements of the
\* widest type.
InitIndexed ==
  /\ focus = {}
  /\ checked \in BOOLEAN
  /\ tok = [s \in Slots |->
              IF ~Held(s) THEN NoToken
              ELSE IF s = "draw" THEN Token("NotDefault", "Complete", "try_complete")
              ELSE Token("NotDefault", "-", "bind")]
  /\ shared = [s \in Slots |-> 0]
  /\ bound = [s \in Slots |-> IF Held(s) /\ s # "element_array" THEN 1 ELSE 0]
  /\ vaoElem = [v \in {0} \cup Single |-> IF v = 1 THEN 1 ELSE 0]
  /\ buf = [n \in Names |-> "Buffer"]
  /\ bufLen = [n \in Names |-> MaxIndex * size_of("U32")]
  /\ store = [n \in Names |-> Payload(bufLen[n])]
  /\ wrote = [n \in Names |-> NoWrite]
  /\ mapped = [n \in Names |-> FALSE]
  /\ guard = [s \in BufSlots |-> NoGuard]
  /\ vao = [n \in Single |-> "VertexArray"]
  /\ fb = [n \in Single |-> "Complete"]
  /\ fbAtt = [n \in Single |-> "complete"]
  /\ verified = [n \in Single |-> TRUE]
  /\ outcomes = [n \in Single |-> <<"Complete">>]
  /\ prog = [n \in Single |-> "LinkedProgram"]
  /\ linked = [n \in Single |-> TRUE]
  /\ attached = [n \in Single |-> {}]
  /\ shader = [ty \in ShaderTypes |-> "CompiledShader"]
  /\ tex = [n \in Single |-> "none"]
  /\ unit = 0
  /\ parked = [u \in Units |-> NoTextures]
  /\ calls = <<>>
  /\ ret = NoRet
  /\ did = Did("-", {})
  /\ args = NoArgs
  /\ touched = NoTouch

NextIndexed ==
  \/ \E ty \in ElementTypes, start \in 0..MaxIndex, end \in 0..MaxIndex, i \in 0..2, junk \in 0..MaxLen :
       Elements(ty, start, end, i, junk)
  \/ \E ty \in ElementTypes, start \in 0..MaxIndex, end \in 0..MaxIndex, junk \in 0..MaxLen :
       RangedElements(ty, start, end, junk)

SpecIndexed == InitIndexed /\ [][NextIndexed]_vars

\* A client that works on the buffers it has allocated through the array
\* slot alone: it fills them, maps ranges given by any pair of bounds, reads
\* and writes through the guards and unmaps.
InitMap ==
  /\ Blank
  /\ focus = {"array"}
  /\ checked = TRUE
  /\ buf = [n \in Names |-> "Buffer"]
  /\ bufLen = [n \in Names |-> 0]
  /\ store = [n \in Names |-> Payload(bufLen[n])]
  /\ wrote = [n \in Names |-> NoWrite]
  /\ vao = [n \in Single |-> "none"]
  /\ fb = [n \in Single |-> "none"]
  /\ fbAtt = [n \in Single |-> "none"]
  /\ prog = [n \in Single |-> "none"]
  /\ linked = [n \in Single |-> FALSE]
  /\ attached = [n \in Single |-> {}]
  /\ shader = [ty \in ShaderTypes |-> "none"]

NextMap ==
  \/ \E n \in Names : BufferBind("array", n)
  \/ \E n \in 0..MaxLen : Data("array", n)
  \/ \E a \in {"Read", "ReadWrite"}, range \in AllRanges, ok \in BOOLEAN,
        junk \in 0..MaxLen : Map("array", a, range, ok, junk)
  \/ Deref("array")
  \/ DerefMut("array")
  \/ \E ok \in BOOLEAN : Unmap("array", ok)
  \/ \E ok \in BOOLEAN : DropGuard("array", ok)
  \/ DropToken("array")

SpecMap == InitMap /\ [][NextMap]_vars

\* A client that fills a buffer of two bytes through the array and the
\* copy-write slots, maps ranges of it for reading or for writing,
\* loads and stores bytes through the guards and unmaps, over a driver that
\* may lose a mapped datastore.
InitTrip ==
  /\ Blank
  /\ focus = {"array", "copy_write"}
  /\ checked = TRUE
  /\ buf = [n \in Names |-> "Buffer"]
  /\ bufLen = [n \in Names |-> 0]
  /\ store = [n \in Names |-> Payload(bufLen[n])]
  /\ wrote = [n \in Names |-> NoWrite]
  /\ vao = [n \in Single |-> "none"]
  /\ fb = [n \in Single |-> "none"]
  /\ fbAtt = [n \in Single |-> "none"]
  /\ prog = [n \in Single |-> "none"]
  /\ linked = [n \in Single |-> FALSE]
  /\ attached = [n \in Single |-> {}]
  /\ shader = [ty \in ShaderTypes |-> "none"]

NextTrip ==
  \/ \E s \in {"array", "copy_write"}, n \in Single : BufferBind(s, n)
  \/ \E s \in {"array", "copy_write"} : Data(s, 2)
  \/ DataUninit("array", 2)
  \/ SubData("array", 1, 1)
  \/ CopySelf("array", 0, 1, 1)
  \/ \E s \in {"array", "copy_write"}, a \in {"Read", "ReadWrite"}, left \in 0..1, right \in 1..2,
        ok \in BOOLEAN :
       Map(s, a, [lo |-> Included(left), hi |-> Excluded(right)], ok, 0)
  \/ \E s \in {"array", "copy_write"}, i \in 0..1 : Load(s, i)
  \/ \E s \in {"array", "copy_write"}, i \in 0..1, v \in Bytes : Store(s, i, v)
  \/ \E s \in {"array", "copy_write"}, ok \in BOOLEAN : Unmap(s, ok)
  \/ \E s \in {"array", "copy_write"}, ok \in BOOLEAN : DropGuard(s, ok)
  \/ \E s \in {"array", "copy_write"} : DropToken(s)

SpecTrip == InitTrip /\ [][NextTrip]_vars

\* A client that allocates and frees objects of every kind in batches of
\* every length, in a checked or an unchecked build, over a driver that may
\* fail to produce a name; it binds buffers to the array slot in between.
InitNew ==
  /\ Blank
  /\ focus = Slots
  /\ checked \in BOOLEAN
  /\ buf = [n \in Names |-> "none"]
  /\ bufLen = [n \in Names |-> 0]
  /\ store = [n \in Names |-> Payload(bufLen[n])]
  /\ wrote = [n \in Names |-> NoWrite]
  /\ vao = [n \in Single |-> "none"]
  /\ fb = [n \in Single |-> "none"]
  /\ fbAtt = [n \in Single |-> "none"]
  /\ prog = [n \in Single |-> "none"]
  /\ linked = [n \in Single |-> FALSE]
  /\ attached = [n \in Single |-> {}]
  /\ shader = [ty \in ShaderTypes |-> "none"]

NextNew ==
  \/ \E N \in 0..NObj, zeroed \in BOOLEAN : GenBuffers(N, zeroed)
  \/ \E N \in 0..1, zeroed \in BOOLEAN : GenVertexArrays(N, zeroed)
  \/ \E N \in 0..1, zeroed \in BOOLEAN : GenTextures(N, zeroed)
  \/ \E N \in 0..1, zeroed \in BOOLEAN : GenFramebuffers(N, zeroed)
  \/ \E N \in 0..1, zeroed \in BOOLEAN : GenRenderbuffers(N, zeroed)
  \/ \E ty \in ShaderTypes, ok \in BOOLEAN : CreateShader(ty, ok)
  \/ \E n \in Single, ok \in BOOLEAN : CreateProgram(n, ok)
  \/ \E S \in SUBSET Names : DeleteBuffers(S)
  \/ \E S \in SUBSET Single : DeleteVertexArrays(S)
  \/ \E S \in SUBSET Single : DeleteStateless(S)
  \/ \E S \in SUBSET Single : DeleteFramebuffers(S)
  \/ \E n \in Names : BufferBind("array", n)
  \/ DropToken("array")

SpecNew == InitNew /\ [][NextNew]_vars

\* A client with buffers, a vertex array and a linked program at hand that
\* takes tokens of every tag from the array, copy-write, vertex array and
\* program slots and calls whatever the tokens allow.
TokenSlots == {"array", "copy_write", "vertex_array", "program"}

InitTokens ==
  /\ Blank
  /\ focus = TokenSlots
  /\ checked = TRUE
  /\ buf = [n \in Names |-> "Buffer"]
  /\ bufLen = [n \in Names |-> 0]
  /\ store = [n \in Names |-> Payload(bufLen[n])]
  /\ wrote = [n \in Names |-> NoWrite]
  /\ vao = [n \in Single |-> "VertexArray"]
  /\ fb = [n \in Single |-> "none"]
  /\ fbAtt = [n \in Single |-> "none"]
  /\ prog = [n \in Single |-> "LinkedProgram"]
  /\ linked = [n \in Single |-> TRUE]
  /\ attached = [n \in Single |-> {}]
  /\ shader = [ty \in ShaderTypes |-> "CompiledShader"]

NextTokens ==
  \/ \E s \in {"array", "copy_write"} : BufferBind(s, 1)
  \/ \E s \in {"array", "copy_write"} : BufferUnbind(s)
  \/ \E s \in {"array", "copy_write"} : BufferInheritMut(s)
  \/ VertexArrayBind(1)
  \/ VertexArrayUnbind
  \/ VertexArrayInheritMut
  \/ ProgramBind(1)
  \/ ProgramUnbind
  \/ ProgramInheritMut
  \/ \E s \in TokenSlots : DropToken(s)
  \/ \E s \in {"array", "copy_write"} : Data(s, MaxLen)
  \/ \E s \in {"array", "copy_write"} : DataUninit(s, 1)
  \/ \E s \in {"array", "copy_write"} : SubData(s, 0, 1)
  \/ \E s \in {"array", "copy_write"}, n \in 0..1 : CopySelf(s, 0, 1, n)
  \/ \E n \in 0..1 : CopyFrom("array", "copy_write", 0, 0, n)
  \/ \E n \in 0..1 : CopyTo("array", "copy_write", 0, 0, n)
  \/ \E s \in {"array", "copy_write"}, ok \in BOOLEAN :
       Map(s, "Read", [lo |-> Unbounded, hi |-> Excluded(1)], ok, 0)
  \/ \E s \in {"array", "copy_write"} : DropGuard(s, TRUE)
  \/ \E s \in {"array", "copy_write"} : ActiveLen(s, 0)
  \/ \E s \in {"array", "copy_write"} : IsEmpty(s, 0)
  \/ \E s \in {"array", "copy_write"} : Usage(s, TRUE)
  \/ \E empty \in BOOLEAN : Uniform(empty)
  \/ \E empty \in BOOLEAN : UniformMatrix(empty)
  \/ \E offset \in {0, 2}, enable \in Options : Attribute(<<"Float", "F32">>, "None", offset, enable)
  \/ \E enabled \in BOOLEAN : SetAttributeEnabled(enabled)

SpecTokens == InitTokens /\ [][NextTokens]_vars

\* A client with buffers, a vertex array, a framebuffer and a texture at
\* hand that binds them to the array, element-array, vertex-array,
\* framebuffer and texture slots, lets go of the tokens and deletes the
\* objects through the slots.
DeleteSlots == {"array", "element_array", "vertex_array", "draw", "read", "d2"}

InitDelete ==
  /\ focus = DeleteSlots
  /\ checked = TRUE
  /\ tok = [s \in Slots |-> NoToken]
  /\ shared = [s \in Slots |-> 0]
  /\ bound = [s \in Slots |-> 0]
  /\ vaoElem = [v \in {0} \cup Single |-> 0]
  /\ buf = [n \in Names |-> "Buffer"]
  /\ bufLen = [n \in Names |-> 0]
  /\ store = [n \in Names |-> Payload(bufLen[n])]
  /\ wrote = [n \in Names |-> NoWrite]
  /\ mapped = [n \in Names |-> FALSE]
  /\ guard = [s \in BufSlots |-> NoGuard]
  /\ vao = [n \in Single |-> "VertexArray"]
  /\ fb = [n \in Single |-> "Incomplete"]
  /\ fbAtt = [n \in Single |-> "none"]
  /\ verified = [n \in Single |-> FALSE]
  /\ outcomes = [n \in Single |-> <<>>]
  /\ prog = [n \in Single |-> "none"]
  /\ linked = [n \in Single |-> FALSE]
  /\ attached = [n \in Single |-> {}]
  /\ shader = [ty \in ShaderTypes |-> "none"]
  /\ tex = [n \in Single |-> "Texture2D"]
  /\ unit = 0
  /\ parked = [u \in Units |-> NoTextures]
  /\ calls = <<>>
  /\ ret = NoRet
  /\ did = Did("-", {})
  /\ args = NoArgs
  /\ touched = NoTouch

NextDelete ==
  \/ \E s \in {"array", "element_array"}, n \in Names : BufferBind(s, n)
  \/ VertexArrayBind(1)
  \/ \E s \in FbSlots : FramebufferBind(s, 1)
  \/ TextureBind("d2", 1)
  \/ \E s \in DeleteSlots : DropToken(s)
  \/ \E n \in Names : DeleteBuffers({n})
  \/ DeleteVertexArrays(Single)
  \/ DeleteFramebuffers(Single)
  \/ DeleteTextures("d2", Single)

SpecDelete == InitDelete /\ [][NextDelete]_vars

\* A client with a framebuffer at hand that binds it or the default
\* framebuffer to the draw and the read slots and selects the buffers
\* fragments are written to and pixels are read from.
InitOutputs ==
  /\ Blank
  /\ focus = FbSlots
  /\ checked = TRUE
  /\ buf = [n \in Names |-> "none"]
  /\ bufLen = [n \in Names |-> 0]
  /\ store = [n \in Names |-> Payload(bufLen[n])]
  /\ wrote = [n \in Names |-> NoWrite]
  /\ vao = [n \in Single |-> "none"]
  /\ fb = [n \in Single |-> "Incomplete"]
  /\ fbAtt = [n \in Single |-> "none"]
  /\ prog = [n \in Single |-> "none"]
  /\ linked = [n \in Single |-> FALSE]
  /\ attached = [n \in Single |-> {}]
  /\ shader = [ty \in ShaderTypes |-> "none"]

NextOutputs ==
  \/ \E s \in FbSlots : FramebufferBind(s, 1)
  \/ \E s \in FbSlots : BindDefault(s)
  \/ \E s \in FbSlots : DropToken(s)
  \/ \E buffers \in Slices(Buffers) : DrawBuffers(buffers)
  \/ \E buffers \in Slices(DefaultBuffers) : DrawBuffersDefault(buffers)
  \/ \E buffer \in Buffers : ReadBuffer(buffer)
  \/ \E buffer \in DefaultBuffers : ReadBufferDefault(buffer)

SpecOutputs == InitOutputs /\ [][NextOutputs]_vars

\* A client with a buffer and a vertex array at hand that binds them and
\* describes one vertex attribute of every type, stride and offset.
InitAttribute ==
  /\ Blank
  /\ focus = {"array", "vertex_array"}
  /\ checked = TRUE
  /\ buf = [n \in Names |-> "Buffer"]
  /\ bufLen = [n \in Names |-> 0]
  /\ store = [n \in Names |-> Payload(bufLen[n])]
  /\ wrote = [n \in Names |-> NoWrite]
  /\ vao = [n \in Single |-> "VertexArray"]
  /\ fb = [n \in Single |-> "none"]
  /\ fbAtt = [n \in Single |-> "none"]
  /\ prog = [n \in Single |-> "none"]
  /\ linked = [n \in Single |-> FALSE]
  /\ attached = [n \in Single |-> {}]
  /\ shader = [ty \in ShaderTypes |-> "none"]

NextAttribute ==
  \/ BufferBind("array", 1)
  \/ BufferUnbind("array")
  \/ BufferInherit("array")
  \/ VertexArrayBind(1)
  \/ VertexArrayUnbind
  \/ \E s \in {"array", "vertex_array"} : DropToken(s)
  \/ DeleteBuffers({1})
  \/ DeleteVertexArrays(Single)
  \/ \E ty \in AttributeTypes, stride \in Strides, offset \in 0..MaxOffset, enable \in Options :
       Attribute(ty, stride, offset, enable)
  \/ \E enabled \in BOOLEAN : SetAttributeEnabled(enabled)

SpecAttribute == InitAttribute /\ [][NextAttribute]_vars

\* A client with a 2D texture at hand that binds it on either texture unit,
\* inherits what the 3D target holds and sets ranges of mipmap levels.
InitTexture ==
  /\ Blank
  /\ focus = TexSlots
  /\ checked = TRUE
  /\ buf = [n \in Names |-> "none"]
  /\ bufLen = [n \in Names |-> 0]
  /\ store = [n \in Names |-> Payload(bufLen[n])]
  /\ wrote = [n \in Names |-> NoWrite]
  /\ vao = [n \in Single |-> "none"]
  /\ fb = [n \in Single |-> "none"]
  /\ fbAtt = [n \in Single |-> "none"]
  /\ prog = [n \in Single |-> "none"]
  /\ linked = [n \in Single |-> FALSE]
  /\ attached = [n \in Single |-> {}]
  /\ shader = [ty \in ShaderTypes |-> "none"]

NextTexture ==
  \/ GenTextures(1, FALSE)
  \/ TextureInitialize("d2", 1)
  \/ TextureBind("d2", 1)
  \/ \E s \in TexSlots : TextureInherit(s)
  \/ \E s \in TexSlots : TextureInheritMut(s)
  \/ \E s \in TexSlots : DropToken(s)
  \/ \E s \in TexSlots : DropShared(s)
  \/ DeleteTextures("d2", Single)
  \/ \E slot \in 0..2, wraps \in BOOLEAN : Unit(slot, wraps)
  \/ \E s \in TexSlots, range \in AllRanges : LevelRange(s, range)

SpecTexture == InitTexture /\ [][NextTexture]_vars

\* A client that creates a program and its two shaders, compiles, links,
\* unlinks and deletes them.
InitLink ==
  /\ Blank
  /\ focus = {"program"}
  /\ checked = TRUE
  /\ buf = [n \in Names |-> "none"]
  /\ bufLen = [n \in Names |-> 0]
  /\ store = [n \in Names |-> Payload(bufLen[n])]
  /\ wrote = [n \in Names |-> NoWrite]
  /\ vao = [n \in Single |-> "none"]
  /\ fb = [n \in Single |-> "none"]
  /\ fbAtt = [n \in Single |-> "none"]
  /\ prog = [n \in Single |-> "none"]
  /\ linked = [n \in Single |-> FALSE]
  /\ attached = [n \in Single |-> {}]
  /\ shader = [ty \in ShaderTypes |-> "none"]

NextLink ==
  \/ CreateProgram(1, TRUE)
  \/ \E ty \in ShaderTypes : CreateShader(ty, TRUE)
  \/ \E ty \in ShaderTypes, ok \in BOOLEAN : Compile(ty, ok)
  \/ \E ty \in ShaderTypes : ShaderFromCompiled(ty)
  \/ \E ok \in BOOLEAN : Link(1, ok)
  \/ ProgramFromLinked(1)
  \/ ProgramBind(1)
  \/ ProgramUnbind
  \/ ProgramInherit
  \/ DropToken("program")
  \/ DropShared("program")
  \/ DeleteProgram(1)
  \/ \E ty \in ShaderTypes : DeleteShader(ty)

SpecLink == InitLink /\ [][NextLink]_vars

\* -------------------------------------------------------------- properties
\* The binding operations of slot s: those that hand out a token borrowed
\* exclusively from the slot.
BindingOn(s) ==
  \/ \E n \in Names : BufferBind(s, n)
  \/ BufferUnbind(s)
  \/ BufferInheritMut(s)
  \/ s = "vertex_array" /\ (\E n \in Single : VertexArrayBind(n))
  \/ s = "vertex_array" /\ (VertexArrayUnbind \/ VertexArrayInheritMut)
  \/ s = "program" /\ (\E n \in Single : ProgramBind(n))
  \/ s = "program" /\ (ProgramUnbind \/ ProgramInheritMut)
  \/ \E n \in Single : TextureInitialize(s, n) \/ TextureBind(s, n)
  \/ TextureInheritMut(s)
  \/ \E n \in Single : FramebufferBind(s, n) \/ BindComplete(s, n) \/ TryComplete(s, n)
  \/ BindDefault(s)
  \/ s \in FbSlots /\ (\E n \in Single : SlotsBind(n) \/ SlotsBindComplete(n))
  \/ s \in FbSlots /\ SlotsBindDefault

\* C1: while the token that bind produced on a slot is live, no binding
\* operation (bind, unbind / bind_default, try_complete, inherit_mut) can be
\* issued on that slot.
C1_NoSecondBind ==
  \A s \in Slots : tok[s].op = "bind" => ~ENABLED BindingOn(s)

\* A bind has just produced a token on a slot and left its object bound.
C1_Witness ==
  \E s \in Slots :
    /\ tok[s].op = "bind"
    /\ did = Did("bind", {s})
    /\ bound[s] # 0 \/ DriverBinding(s) # 0

\* bind of a user object on slot t, and what it needs a handle of
BindOn(t) ==
  \/ \E n \in Names : BufferBind(t, n)
  \/ t = "vertex_array" /\ (\E n \in Single : VertexArrayBind(n))
  \/ t = "program" /\ (\E n \in Single : ProgramBind(n))
  \/ \E n \in Single : TextureBind(t, n)
  \/ \E n \in Single : FramebufferBind(t, n)

HandleFor(t) ==
  \/ t \in BufSlots /\ \E n \in Names : buf[n] = "Buffer"
  \/ t = "vertex_array" /\ \E n \in Single : vao[n] = "VertexArray"
  \/ t = "program" /\ \E n \in Single : prog[n] = "LinkedProgram"
  \/ t \in TexSlots /\ \E n \in Single : tex[n] = Dim(t)
  \/ t \in FbSlots /\ \E n \in Single : fb[n] = "Incomplete"

\* inherit() on slot s
InheritOn(s) ==
  \/ BufferInherit(s)
  \/ s = "vertex_array" /\ VertexArrayInherit
  \/ s = "program" /\ ProgramInherit
  \/ TextureInherit(s)
  \/ FramebufferInherit(s)

\* While a bind token of slot s is outstanding, a bind on any other slot the
\* client uses goes through as long as that slot itself is free.
C2_OtherSlotsPermitted ==
  \A s \in Slots : \A t \in focus \ {s} :
    (Running /\ tok[s].op = "bind" /\ CanMut(t) /\ HandleFor(t)) => ENABLED BindOn(t)

\* While a bind token of slot s is outstanding, the operations that take the
\* slot by shared reference can be issued on s: inherit on every slot, and
\* compile, link, delete and delete_shader on the program slot.
C2_SharedPermitted ==
  \A s \in Slots :
    (Running /\ tok[s].op = "bind") =>
      /\ shared[s] < MaxShared => ENABLED InheritOn(s)
      /\ s = "program" =>
           /\ \A ty \in ShaderTypes :
                shader[ty] = "EmptyShader" =>
                  /\ ENABLED (\E ok \in BOOLEAN : Compile(ty, ok))
                  /\ ENABLED DeleteShader(ty)
           /\ \A n \in Single :
                prog[n] = "Program" =>
                  /\ ENABLED DeleteProgram(n)
                  /\ (\A ty \in ShaderTypes : shader[ty] = "CompiledShader")
                       => ENABLED (\E ok \in BOOLEAN : Link(n, ok))

\* C2: while a token produced by bind on a slot is outstanding, binds on
\* every other slot remain permitted and so do the shared-access operations
\* on the slot itself (inherit; compile, link, delete and delete_shader on
\* the program slot).
C2_Permitted == C2_OtherSlotsPermitted /\ C2_SharedPermitted

\* The live tokens obtained from slot s.
LiveTokens(s) == (IF tok[s] = NoToken THEN 0 ELSE 1) + shared[s]

\* C3 as stated: in every reachable state at most one live token exists per
\* slot, tokens produced by inherit counted with those of the binding
\* operations.
C3_AtMostOneToken == \A s \in Slots : LiveTokens(s) <= 1

\* C3: a live token produced by bind, bind_complete, unbind / bind_default,
\* try_complete or inherit_mut is the only live token of its slot: no token
\* of inherit is live beside it and neither a binding operation nor inherit
\* can be issued on the slot.  Only tokens of inherit coexist.
C3_ExclusiveAlone ==
  \A s \in Slots :
    tok[s] # NoToken =>
      /\ shared[s] = 0
      /\ ~ENABLED BindingOn(s)
      /\ ~ENABLED InheritOn(s)

\* Two tokens of inherit are live on one slot, the second just handed out.
C3_Witness ==
  \E s \in Slots :
    /\ shared[s] >= 2
    /\ tok[s] = NoToken
    /\ did = Did("inherit", {s})

IndexedDraws == {"DrawElements", "DrawElementsInstanced", "DrawRangeElements"}

\* The most recent operation issued driver call f.
Issued(F) == \E i \in DOMAIN calls : calls[i].f \in F

\* C4: at every DrawElements, DrawElementsInstanced or DrawRangeElements
\* call issued by Draw::elements or Draw::ranged_elements the driver's
\* element-array-buffer binding is a buffer, never zero, whatever binds came
\* before (a draw leaves the bindings as they were when it was issued).
C4_ElementBufferBound ==
  (did.op \in {"elements", "ranged_elements"} /\ Issued(IndexedDraws))
    => DriverBinding("element_array") # 0

\* C5: every clear or draw issued against a user framebuffer through a
\* Complete-tagged token finds that framebuffer verified: a try_complete on
\* it succeeded and no texture_2d has changed its attachments since, also
\* when the token is older than the change.
C5_DrawnWhenVerified ==
  (/\ did.op \in {"clear", "arrays", "elements", "ranged_elements"}
   /\ calls # <<>>
   /\ ret.res # "Panic"
   /\ bound["draw"] # 0)
    => verified[bound["draw"]]

AllDraws == IndexedDraws \cup {"DrawArrays", "DrawArraysInstanced"}

\* C6: every driver draw call is issued while the client holds, of the
\* vertex-array slot and the program slot (and of the element-array slot for
\* an indexed draw), the token of a bind of a user object, the program bound
\* being one whose link succeeded, and of the draw-framebuffer slot the token
\* of bind_complete, of a successful try_complete or of bind_default.  The
\* token a slot has handed out is that of the most recent binding operation
\* on the slot, so nothing that follows unbind or inherit gets to draw.
C6_DrawHoldsBinds ==
  (Issued(AllDraws) \/ did.op \in {"arrays", "elements", "ranged_elements"}) =>
    /\ tok["vertex_array"].op = "bind" /\ bound["vertex_array"] # 0
    /\ tok["program"].op = "bind" /\ bound["program"] # 0 /\ linked[bound["program"]]
    /\ \/ tok["draw"].op \in {"bind_complete", "bind_default"}
       \/ tok["draw"].op = "try_complete" /\ tok["draw"].comp = "Complete"
    /\ (Issued(IndexedDraws) \/ did.op \in {"elements", "ranged_elements"})
         => tok["element_array"].op = "bind"

\* An indexed draw call has gone to the driver with a buffer bound for it.
C6_Witness ==
  /\ Issued(IndexedDraws)
  /\ did.op \in {"elements", "ranged_elements"}
  /\ tok["draw"].op \in {"bind_complete", "bind_default", "try_complete"}
  /\ DriverBinding("element_array") # 0

\* C7: no operation touches a buffer while a MapGuard on that buffer is
\* alive, through whichever slot the buffer is reached: not data, sub_data,
\* a length query, a second map or the deletion.
C7_GuardedUntouched == ~touched.guarded

\* The UnmapBuffer calls on the target of slot s among the driver calls of
\* the most recent operation.
UnmapCalls(s) ==
  Cardinality({i \in DOMAIN calls : calls[i].f = "UnmapBuffer" /\ calls[i].target = s})

\* C8: the operation that ends a MapGuard, unmap or the drop, issues exactly
\* one UnmapBuffer on the guard's target, and no other operation issues any:
\* neither a map that panics, nor anything issued when the guard is gone, so
\* that every guard is unmapped once and only once.
C8_UnmapOnce ==
  [][\A s \in BufSlots :
       /\ UnmapCalls(s)' = IF guard[s].live /\ ~guard'[s].live THEN 1 ELSE 0
       /\ (guard[s].live /\ ~guard'[s].live) => did'.op \in {"unmap", "drop_guard"}
       /\ (guard[s].live /\ tok'[s] = NoToken) => ~guard'[s].live
       /\ (did'.op = "map" /\ ret'.res = "Panic") => guard'[s] = guard[s]]_vars

\* An explicit unmap has just ended a guard on a slot whose token is still
\* held.
C8_Witness ==
  \E s \in BufSlots :
    /\ did = Did("unmap", {s})
    /\ ~guard[s].live
    /\ tok[s] # NoToken
    /\ UnmapCalls(s) = 1

\* C9: unmap() never panics, it returns Ok(()) when the driver's UnmapBuffer
\* answers GL_TRUE and Err(UnmapError::Lost) when it answers GL_FALSE; the
\* drop of a guard panics when the driver answers GL_FALSE and only then.
C9_UnmapResult ==
  \A s \in BufSlots :
    /\ did = Did("unmap", {s}) =>
         /\ ret.res # "Panic"
         /\ calls = <<CallOut("UnmapBuffer", s, 0, "GL_TRUE")>> => ret.res = "Ok"
         /\ calls = <<CallOut("UnmapBuffer", s, 0, "GL_FALSE")>>
              => (ret.res = "Err" /\ ret.kind = "Lost")
         /\ UnmapCalls(s) = 1
    /\ did = Did("drop_guard", {s}) =>
         (ret.res = "Panic" <=> calls = <<CallOut("UnmapBuffer", s, 0, "GL_FALSE")>>)

\* An explicit unmap got GL_FALSE from the driver and returned the error.
C9_Witness ==
  \E s \in BufSlots :
    /\ did = Did("unmap", {s})
    /\ calls = <<CallOut("UnmapBuffer", s, 0, "GL_FALSE")>>
    /\ ret.res = "Err"

\* The kind each status the driver model produces is to be reported as.
ExpectedKind(status) ==
  CASE status = "FRAMEBUFFER_INCOMPLETE_ATTACHMENT" -> "Attachment"
    [] status = "FRAMEBUFFER_INCOMPLETE_MISSING_ATTACHMENT" -> "MissingAttachment"
    [] status = "FRAMEBUFFER_INCOMPLETE_DIMENSIONS" -> "Unspecified"
    [] OTHER -> "-"

\* C10: try_complete(fb) on a slot issues one bind of fb to the slot's target
\* and then one CheckFramebufferStatus on that target.  On
\* FRAMEBUFFER_COMPLETE it returns Ok with the Complete handle of the same
\* name and a Complete token; on any other status Err with the Incomplete
\* handle of the same name, an Incomplete token and the kind the status
\* classifies as, Unspecified for a status the enum does not know.  Either
\* way fb is bound to the slot afterwards.
C10_TryComplete ==
  \A s \in FbSlots :
    did = Did("try_complete", {s}) =>
      /\ Len(calls) = 2
      /\ calls[1] = Call("BindFramebuffer", s, ret.name)
      /\ calls[2].f = "CheckFramebufferStatus" /\ calls[2].target = s
      /\ ret.name # 0
      /\ bound[s] = ret.name
      /\ tok[s].def = "NotDefault" /\ tok[s].op = "try_complete"
      /\ IF calls[2].out = "FRAMEBUFFER_COMPLETE"
           THEN /\ ret.res = "Ok" /\ ret.tag = "Complete"
                /\ fb[ret.name] = "Complete"
                /\ tok[s].comp = "Complete"
           ELSE /\ ret.res = "Err" /\ ret.tag = "Incomplete"
                /\ fb[ret.name] = "Incomplete"
                /\ tok[s].comp = "Incomplete"
                /\ ret.kind = ExpectedKind(calls[2].out)

\* try_complete got a status the enum does not know and handed the
\* framebuffer back as Unspecified, leaving it bound.
C10_Witness ==
  \E s \in FbSlots :
    /\ did = Did("try_complete", {s})
    /\ calls[2].out = "FRAMEBUFFER_INCOMPLETE_DIMENSIONS"
    /\ ret.res = "Err" /\ ret.kind = "Unspecified"
    /\ bound[s] = ret.name

C11_WitnessErr ==
  /\ did.op = "try_complete"
  /\ ret.res = "Err"
  /\ Len(outcomes[ret.name]) = 2
  /\ outcomes[ret.name][2] = ret.kind

\* C12: try_complete of a framebuffer that has had no attachment call since
\* it was allocated returns Err whose kind is MissingAttachment, and hands the
\* handle back Incomplete.
C12_MissingAttachment ==
  (did.op = "try_complete" /\ fbAtt[ret.name] = "none")
    => /\ ret.res = "Err"
       /\ ret.kind = "MissingAttachment"
       /\ fb[ret.name] = "Incomplete"

\* try_complete has run on a framebuffer nothing was ever attached to.
C12_Witness ==
  /\ did.op = "try_complete"
  /\ fbAtt[ret.name] = "none"
  /\ ret.kind = "MissingAttachment"
  /\ calls[2].out = "FRAMEBUFFER_INCOMPLETE_MISSING_ATTACHMENT"

\* The most recent operation was a draw of nothing: arrays or elements with
\* an empty range or a zero instance count, ranged_elements with an empty range.
DrewNothing ==
  \/ did.op \in {"arrays", "elements"} /\ (args.start = args.end \/ args.instances = 0)
  \/ did.op = "ranged_elements" /\ args.start = args.end

\* C13: a draw of nothing returns without any driver call, neither a draw
\* call nor a buffer length query, and without panicking, in checked and in
\* unchecked builds.
C13_NothingDrawn == DrewNothing => calls = <<>> /\ ret = NoRet

\* elements was called in a checked build with a non-empty range and zero
\* instances, and returned.
C13_Witness ==
  /\ did.op = "elements"
  /\ checked
  /\ args.instances = 0
  /\ args.start < args.end
  /\ calls = <<>>
  /\ ret = NoRet

\* ranged_elements was called with an empty range that does not start at zero.
C13_WitnessRanged ==
  /\ did.op = "ranged_elements"
  /\ args.start = args.end
  /\ args.start > 0
  /\ calls = <<>>

\* The driver draw calls of the most recent operation.
DrawCallsOf == SelectSeq(calls, LAMBDA c : c.f \in AllDraws)

\* C14: arrays and elements called with a non-empty range and at least one
\* instance, on returning, have issued exactly one driver draw call.  With
\* one instance it is the non-instanced entry point, given the first vertex
\* (arrays) or byte offset (elements) and the count that the instanced entry
\* point would be given; with two or more instances it is the instanced entry
\* point given that instance count.  What the driver renders for the
\* one-instance call is what it renders for the instanced call with an
\* instance count of one.  (A checked build's out-of-bounds assertion, C16,
\* ends the call before the draw; the mode is handed through in both arms.)
C14_InstancedEquivalent ==
  (did.op \in {"arrays", "elements"} /\ args.start < args.end /\ args.instances >= 1
     /\ ret = NoRet)
    => LET indexed == did.op = "elements"
           count == args.end - args.start
           first == IF indexed THEN args.start * size_of(args.ty) ELSE args.start
           plain == DrawCall(IF indexed THEN "DrawElements" ELSE "DrawArrays", count, first, 0)
           instanced == DrawCall(IF indexed THEN "DrawElementsInstanced" ELSE "DrawArraysInstanced",
                                 count, first, args.instances)
       IN /\ Len(DrawCallsOf) = 1
          /\ args.instances = 1 => DrawCallsOf[1] = plain
          /\ args.instances >= 2 => DrawCallsOf[1] = instanced
          /\ Rendered(DrawCallsOf[1]) = Rendered(instanced)

\* elements drew two instances through the instanced entry point.
C14_Witness ==
  /\ did.op = "elements"
  /\ args.instances = 2
  /\ Len(DrawCallsOf) = 1
  /\ DrawCallsOf[1].f = "DrawElementsInstanced"
  /\ DrawCallsOf[1].inst = 2

\* arrays drew one instance through the non-instanced entry point.
C14_WitnessSingle ==
  /\ did.op = "arrays"
  /\ args.instances = 1
  /\ Len(DrawCallsOf) = 1
  /\ DrawCallsOf[1].f = "DrawArrays"

\* C15: every indexed draw call issued for elements = s..e with s < e and
\* element type T hands the driver the count e - s and the byte offset
\* s * size_of(T), with size_of 1 for U8, 2 for U16 and 4 for U32.
C15_ByteOffset ==
  (did.op \in {"elements", "ranged_elements"} /\ Issued(IndexedDraws))
    => LET bytes == CASE args.ty = "U8" -> 1 [] args.ty = "U16" -> 2 [] args.ty = "U32" -> 4 IN
         /\ args.start < args.end
         /\ Len(DrawCallsOf) = 1
         /\ DrawCallsOf[1].arg = args.end - args.start
         /\ DrawCallsOf[1].off = args.start * bytes

\* elements drew 2..6 of U16 indices: byte offset 4, count 4.
C15_Witness ==
  /\ did.op = "elements"
  /\ args = DrawArgs("U16", 2, 6, 1)
  /\ DrawCallsOf = <<DrawCall("DrawElements", 4, 4, 0)>>

\* elements drew 0..6 of U16 indices: byte offset 0, count 6.
C15_WitnessFromZero ==
  /\ did.op = "elements"
  /\ args = DrawArgs("U16", 0, 6, 1)
  /\ DrawCallsOf = <<DrawCall("DrawElements", 6, 0, 0)>>

\* The bytes of the index buffer an indexed draw with the recorded arguments reads up to.
SpanEnd == args.start * size_of(args.ty) + (args.end - args.start) * size_of(args.ty)

\* C16: in a checked build elements and ranged_elements, called with a
\* non-empty range (and at least one instance) while a buffer is bound to the
\* element-array target, first query that buffer's length.  When
\* byte_offset + count * size_of(T) exceeds the length the call ends in an
\* assertion and no driver draw call has been issued; when it fits, the one
\* draw call follows the query.
C16_CheckedBounds ==
  (checked /\ did.op \in {"elements", "ranged_elements"}
     /\ args.start < args.end /\ args.instances >= 1
     /\ DriverBinding("element_array") # 0)
    => LET len == bufLen[DriverBinding("element_array")] IN
         /\ calls # <<>>
         /\ calls[1] = LenQuery
         /\ SpanEnd > len => (ret = Panic /\ calls = <<LenQuery>>)
         /\ SpanEnd <= len => (ret = NoRet /\ Len(calls) = 2 /\ Len(DrawCallsOf) = 1)

\* A checked build's ranged_elements ended in the bounds assertion: the
\* length was queried, the range reaches past it, nothing was drawn.
C16_Witness ==
  /\ checked
  /\ did.op = "ranged_elements"
  /\ DriverBinding("element_array") # 0
  /\ SpanEnd > bufLen[DriverBinding("element_array")]
  /\ calls = <<LenQuery>>
  /\ ret = Panic

\* A checked build's elements drew a range that fits.
C16_WitnessFits ==
  /\ checked
  /\ did.op = "elements"
  /\ DriverBinding("element_array") # 0
  /\ args.start > 0
  /\ SpanEnd <= bufLen[DriverBinding("element_array")]
  /\ Len(calls) = 2
  /\ calls[2].f = "DrawElements"

\* What a checked build's assertion lets through when no buffer is bound to
\* the element-array target (the case of C4): the queried length is whatever
\* the unwritten memory held.
C16_UnboundQueried ==
  /\ checked
  /\ did.op = "elements"
  /\ DriverBinding("element_array") = 0
  /\ Issued(IndexedDraws)

\* The most recent operation was a draw called with a reversed range.
DrewReversed ==
  /\ did.op \in {"arrays", "elements", "ranged_elements"}
  /\ args.end < args.start

\* C17 as stated: every draw called with a reversed range ends in a panic
\* with no driver draw call issued, whatever the instance count, zero included.
C17_ReversedAlwaysRejected ==
  DrewReversed => ret = Panic /\ DrawCallsOf = <<>>

\* C17: a draw called with a reversed range and, for arrays and elements, an
\* instance count of at least one ends in a panic with no driver call issued,
\* neither a draw call nor a length query; arrays and elements called with a
\* reversed range and an instance count of zero return without a panic and
\* without a driver call.
C17_ReversedRejected ==
  DrewReversed
    => /\ calls = <<>>
       /\ ret = (IF args.instances = 0 THEN NoRet ELSE Panic)

\* elements was called with a reversed range and two instances, and panicked.
C17_Witness ==
  /\ DrewReversed
  /\ did.op = "elements"
  /\ args.instances = 2
  /\ ret = Panic
  /\ calls = <<>>

\* arrays was called with a reversed range and no instance, and returned.
C17_WitnessNoInstance ==
  /\ DrewReversed
  /\ did.op = "arrays"
  /\ args.instances = 0
  /\ ret = NoRet

\* The MapBufferRange calls of the most recent operation.
MapCallsOf == SelectSeq(calls, LAMBDA c : c.f = "MapBufferRange")

\* The slot the most recent map, deref or unmap went through.
MapSlot == CHOOSE s \in did.slots : TRUE

\* The start and the end of the byte range the most recent map was asked for.
AskedLeft ==
  IF args.lo.kind = "Unbounded" THEN 0
  ELSE IF args.lo.kind = "Included" THEN args.lo.x ELSE args.lo.x + 1

AskedRight ==
  IF args.hi.kind = "Unbounded" THEN bufLen[DriverBinding(MapSlot)]
  ELSE IF args.hi.kind = "Included" THEN args.hi.x + 1 ELSE args.hi.x

\* C18: map, called through a token whose target has a buffer bound, takes
\* left = 0 for an unbounded start, x for Included(x) and x + 1 for
\* Excluded(x), and right = the buffer's length as the driver reports it for an
\* unbounded end, x + 1 for Included(x) and x for Excluded(x).  The length is
\* queried when the end is unbounded and only then; a range that is not
\* inverted is handed to MapBufferRange as offset left and length
\* right - left; the guard made of it, and the byte view the guard
\* dereferences to, have that length.
C18_MapRange ==
  /\ (did.op = "map" /\ DriverBinding(MapSlot) # 0)
       => /\ Issued({"GetBufferParameteri64v"}) <=> args.hi.kind = "Unbounded"
          /\ Len(MapCallsOf) = (IF AskedRight < AskedLeft THEN 0 ELSE 1)
          /\ MapCallsOf # <<>>
               => /\ MapCallsOf[1].target = MapSlot
                  /\ MapCallsOf[1].off = AskedLeft
                  /\ MapCallsOf[1].arg = AskedRight - AskedLeft
          /\ guard[MapSlot].live => guard[MapSlot].len = AskedRight - AskedLeft
  /\ did.op \in {"deref", "deref_mut"} => ret.name = guard[MapSlot].len

\* A map of everything after the first byte, `(Excluded(0), Unbounded)`,
\* queried the length and mapped offset 1 to the end.
C18_Witness ==
  /\ did.op = "map"
  /\ args = [lo |-> Excluded(0), hi |-> Unbounded]
  /\ Len(calls) = 2
  /\ calls[1].f = "GetBufferParameteri64v"
  /\ calls[2].off = 1
  /\ calls[2].arg = bufLen[DriverBinding(MapSlot)] - 1
  /\ guard[MapSlot].live
  /\ guard[MapSlot].len = calls[2].arg

\* A map of `0..=1` mapped two bytes without a length query.
C18_WitnessIncluded ==
  /\ did.op = "map"
  /\ args = [lo |-> Included(0), hi |-> Included(1)]
  /\ Len(calls) = 1
  /\ calls[1].arg = 2
  /\ guard[MapSlot].live

\* C19: map panics before any MapBufferRange call when the computed range is
\* inverted; it panics with no guard made when MapBufferRange returns a null
\* pointer, which the driver does for a range that reaches past the end of
\* the datastore; it panics in no other case, and a guard is made exactly
\* when MapBufferRange returned a pointer that is not null.
C19_MapPanics ==
  (did.op = "map" /\ DriverBinding(MapSlot) # 0)
    => /\ AskedRight < AskedLeft => (ret = Panic /\ MapCallsOf = <<>> /\ ~guard[MapSlot].live)
       /\ (MapCallsOf # <<>> /\ MapCallsOf[1].out = "null")
            => (ret = Panic /\ ~guard[MapSlot].live)
       /\ (MapCallsOf # <<>>
              /\ MapCallsOf[1].off + MapCallsOf[1].arg > bufLen[DriverBinding(MapSlot)])
            => MapCallsOf[1].out = "null"
       /\ guard[MapSlot].live <=> (MapCallsOf # <<>> /\ MapCallsOf[1].out = "ptr")
       /\ ret = Panic <=> ~guard[MapSlot].live

\* A map of a range that reaches past the end of the datastore got a null
\* pointer and panicked with no guard made.
C19_Witness ==
  /\ did.op = "map"
  /\ MapCallsOf # <<>>
  /\ MapCallsOf[1].arg > 0
  /\ MapCallsOf[1].off + MapCallsOf[1].arg > bufLen[DriverBinding(MapSlot)]
  /\ MapCallsOf[1].out = "null"
  /\ ret = Panic
  /\ ~guard[MapSlot].live

\* A map of an inverted range panicked after the length query of its
\* unbounded end and before any mapping call.
C19_WitnessInverted ==
  /\ did.op = "map"
  /\ args.hi.kind = "Unbounded"
  /\ AskedRight < AskedLeft
  /\ Len(calls) = 1
  /\ MapCallsOf = <<>>
  /\ ret = Panic

\* C20: the access of a mapping is that of the guard's type.  A Read guard
\* is made of a MapBufferRange call with the read flag and no other, and
\* dereferences to an immutable byte view only; a ReadWrite guard is made of
\* a call with the read and the write flag and no other, and dereferences to
\* an immutable and to a mutable view.  A mutable view is never taken of a
\* Read guard.
C20_AccessByType ==
  /\ (did.op = "map" /\ guard[MapSlot].live)
       => /\ guard[MapSlot].access = "Read" => MapCallsOf[1].flags = {"MAP_READ_BIT"}
          /\ guard[MapSlot].access = "ReadWrite"
               => MapCallsOf[1].flags = {"MAP_READ_BIT", "MAP_WRITE_BIT"}
          /\ guard[MapSlot].access \in {"Read", "ReadWrite"}
  /\ did.op = "deref_mut" => guard[MapSlot].access = "ReadWrite"
  /\ \A s \in focus \cap BufSlots :
       (Running /\ guard[s].live)
         => /\ ENABLED Deref(s)
            /\ ENABLED DerefMut(s) <=> guard[s].access = "ReadWrite"

\* A Read guard has just been made with the read flag alone; it can be read
\* and cannot be written through.
C20_Witness ==
  /\ did.op = "map"
  /\ guard[MapSlot].live
  /\ guard[MapSlot].access = "Read"
  /\ MapCallsOf[1].flags = {"MAP_READ_BIT"}
  /\ ENABLED Deref(MapSlot)
  /\ ~ENABLED DerefMut(MapSlot)

\* A ReadWrite guard has just handed out a mutable view.
C20_WitnessWrite ==
  /\ did.op = "deref_mut"
  /\ guard[MapSlot].access = "ReadWrite"

\* The most recent operation was a byte-range operation asked for no bytes:
\* a sub_data of an empty slice, a copy of len == 0, a map of an empty range.
ZeroLengthRequest ==
  \/ did.op \in {"sub_data", "copy_from", "copy_to", "copy_self"} /\ args.len = 0
  \/ did.op = "map" /\ args.hi.kind # "Unbounded" /\ AskedRight = AskedLeft

\* C21: a zero-length sub_data, copy_from, copy_to, copy_self or map is a
\* no-op: it issues no driver call, does not panic and touches no buffer.
C21_ZeroLengthNoOp ==
  ZeroLengthRequest => (calls = <<>> /\ ret # Panic /\ touched = NoTouch)

\* What holds of the copies alone: a copy of no bytes returns before any
\* driver call.
C21_CopyOfNothing ==
  (did.op \in {"copy_from", "copy_to", "copy_self"} /\ args.len = 0)
    => (calls = <<>> /\ ret # Panic /\ touched = NoTouch)

\* A map of the empty range `1..1` of a bound, unmapped buffer of two bytes
\* was handed to the driver with length 0, got a null pointer and panicked.
C21_WitnessMapPanics ==
  /\ did.op = "map"
  /\ args = [lo |-> Included(1), hi |-> Excluded(1)]
  /\ DriverBinding(MapSlot) # 0
  /\ bufLen[DriverBinding(MapSlot)] = 2
  /\ Len(calls) = 1
  /\ calls[1].f = "MapBufferRange"
  /\ calls[1].arg = 0
  /\ calls[1].out = "null"
  /\ ret = Panic

\* A sub_data of an empty slice issued a BufferSubData call of size 0.
C21_WitnessSubData ==
  /\ did.op = "sub_data"
  /\ args.len = 0
  /\ Len(calls) = 1
  /\ calls[1].f = "BufferSubData"
  /\ calls[1].arg = 0


\* The batched allocation entry points and the driver entry point of each.
GenOps == {"textures", "framebuffers", "vertex_arrays", "buffers", "render_buffers"}
GenEntry(op) ==
  CASE op = "textures" -> "GenTextures"
    [] op = "framebuffers" -> "GenFramebuffers"
    [] op = "vertex_arrays" -> "GenVertexArrays"
    [] op = "buffers" -> "GenBuffers"
    [] op = "render_buffers" -> "GenRenderbuffers"

\* The handles of a table that a step made of names free before it.
Made(old, new, type) == {n \in DOMAIN old : old[n] = "none" /\ new[n] = type}

\* How many handles the step that ends in an allocation made.
MadeBy(op) ==
  CASE op = "textures" -> Cardinality(Made(tex, tex', "Stateless"))
    [] op = "framebuffers" -> Cardinality(Made(fb, fb', "Incomplete"))
    [] op = "vertex_arrays" -> Cardinality(Made(vao, vao', "VertexArray"))
    [] op = "buffers" -> Cardinality(Made(buf, buf', "Buffer"))

\* C22: a batched allocation of array length N issues one generation call of
\* its driver entry point with count N and, when it returns, has made N
\* handles; a checked build panics when the driver wrote a zero name, and an
\* allocation panics in no other case.  shader and program issue one creation
\* call and panic, in checked and in unchecked builds alike, exactly when the
\* driver returned name zero; otherwise they return a handle of a non-zero
\* name.
C22_Step ==
  /\ did'.op \in GenOps
       => /\ Len(calls') = 1
          /\ calls'[1].f = GenEntry(did'.op)
          /\ calls'[1].arg = args'.n
          /\ (checked /\ calls'[1].out = "zero") => ret' = Panic
          /\ ret' = Panic => (checked /\ calls'[1].out = "zero")
          /\ (ret' = NoRet /\ did'.op # "render_buffers") => MadeBy(did'.op) = args'.n
          /\ (ret' # NoRet /\ did'.op # "render_buffers") => MadeBy(did'.op) = 0
  /\ did'.op \in {"shader", "program"}
       => /\ Len(calls') = 1
          /\ calls'[1].f = (IF did'.op = "shader" THEN "CreateShader" ELSE "CreateProgram")
          /\ ret' = Panic <=> calls'[1].out = "zero"
          /\ ret' # Panic => (ret'.res = "Ok" /\ ret'.name # 0)

C22_WitnessBatch ==
  /\ did.op = "buffers"
  /\ args.n = NObj
  /\ ret = NoRet
  /\ \A n \in Names : buf[n] = "Buffer"

\* An unchecked build's shader() panicked on name zero.
C22_WitnessShader ==
  /\ did.op = "shader"
  /\ ~checked
  /\ calls[1].out = "zero"
  /\ ret = Panic

\* An empty batch issued its generation call with count 0.
C22_WitnessEmpty ==
  /\ did.op \in GenOps
  /\ args.n = 0
  /\ Len(calls) = 1
  /\ calls[1].arg = 0
  /\ ret = NoRet


\* The most recent operation was a batched deletion.
BatchedDelete(d) == d.op = "delete_textures" \/ (d.op = "delete" /\ "program" \notin d.slots)

\* The handles of a table that a step deleted.
Deleted(old, new) == {n \in DOMAIN old : old[n] \notin {"none", "deleted"} /\ new[n] = "deleted"}

DeletedNow ==
  Deleted(buf, buf') \cup Deleted(vao, vao') \cup Deleted(tex, tex') \cup Deleted(fb, fb')

\* Some operation takes the buffer, vertex array, texture or framebuffer
\* handle of name n.
TakesBuffer(n) == (\E s \in BufSlots : BufferBind(s, n)) \/ DeleteBuffers({n})
TakesVertexArray(n) == VertexArrayBind(n) \/ DeleteVertexArrays({n})
TakesTexture(n) ==
  \/ \E s \in TexSlots : TextureInitialize(s, n) \/ TextureBind(s, n) \/ DeleteTextures(s, {n})
  \/ DeleteStateless({n})
TakesFramebuffer(n) ==
  \/ \E s \in FbSlots : FramebufferBind(s, n) \/ BindComplete(s, n) \/ TryComplete(s, n)
  \/ FramebufferFromComplete(n)
  \/ DeleteFramebuffers({n})

\* C23: a batched deletion of N handles issues one deletion call with count
\* N and the names of exactly those handles, which are the handles the step
\* deletes; a deleted handle stays deleted, and no operation that takes a
\* handle is possible on a deleted one.
C23_Step ==
  /\ BatchedDelete(did')
       => /\ Len(calls') = 1
          /\ calls'[1].f \in {"DeleteBuffers", "DeleteVertexArrays", "DeleteTextures",
                              "DeleteFramebuffers"}
          /\ calls'[1].arg = args'.n
          /\ Cardinality(calls'[1].names) = args'.n
          /\ calls'[1].names = DeletedNow
  /\ \A n \in Names : buf[n] = "deleted" => (buf'[n] = "deleted" /\ ~ENABLED TakesBuffer(n))
  /\ \A n \in Single :
       /\ vao[n] = "deleted" => (vao'[n] = "deleted" /\ ~ENABLED TakesVertexArray(n))
       /\ tex[n] = "deleted" => (tex'[n] = "deleted" /\ ~ENABLED TakesTexture(n))
       /\ fb[n] = "deleted" => (fb'[n] = "deleted" /\ ~ENABLED TakesFramebuffer(n))

C23_WitnessEmpty ==
  /\ did.op = "delete"
  /\ did.slots = FbSlots
  /\ args.n = 0
  /\ calls[1].arg = 0
  /\ calls[1].names = {}


\* The operations that take a handle by value and hand a handle of another
\* typestate, or the bare name, back.
Conversions ==
  {"from", "try_complete", "compile", "link", "initialize", "into_name", "into_complete_unchecked"}

\* The typestate under which the object tables hold the handle an operation
\* returned.
HeldAs(r) ==
  CASE r.tag \in {"Complete", "Incomplete"} -> fb[r.name]
    [] r.tag \in {"CompiledShader", "EmptyShader"} ->
         shader[CHOOSE ty \in ShaderTypes : ShaderName(ty) = r.name]
    [] r.tag \in {"LinkedProgram", "Program"} -> prog[r.name]
    [] r.tag = "Texture2D" -> tex[r.name]
    [] OTHER -> "-"

C24_WitnessIntoName ==
  /\ did.op = "into_name"
  /\ linked[1]
  /\ ret.name = 1
  /\ prog[1] = "forgotten"

\* A failed compile handed the shader of the same name back.
C24_WitnessCompile ==
  /\ did.op = "compile"
  /\ ret.res = "Err"
  /\ ret.name = args.handle
  /\ ret.name = ShaderName("fragment")


\* The entry points of the driver calls of the most recent operation, in
\* order.
Entries == [i \in DOMAIN calls |-> calls[i].f]

C25_WitnessCompiled ==
  /\ did.op = "compile"
  /\ calls[3].out = "GL_TRUE"
  /\ ret = Retyped(ShaderName("vertex"), "CompiledShader")
  /\ shader["vertex"] = "CompiledShader"


\* The slots whose tokens carry a defaultness tag; texture tokens carry none.
TaggedSlots == BufSlots \cup {"vertex_array", "program"} \cup FbSlots

\* The driver's bind entry points.
BindEntries == {"BindBuffer", "BindVertexArray", "UseProgram", "BindFramebuffer", "BindTexture"}

\* C26: right after bind (or bind_complete) of a handle on a slot, the
\* driver's binding of the slot's target is the handle's name, which is not
\* zero, and the slot's token is tagged NotDefault; right after unbind or
\* bind_default the binding is 0 and the token is tagged IsDefault; each of
\* them issued one driver call, a bind of that name or of 0.  A texture bind
\* does the same with a token that has no tag.
C26_BindBinds ==
  /\ did.op \in {"bind", "bind_complete"}
       => /\ Len(calls) = 1
          /\ calls[1].f \in BindEntries
          /\ calls[1].arg = args.handle
          /\ args.handle # 0
          /\ \A s \in did.slots :
               /\ DriverBinding(s) = args.handle
               /\ s \in TaggedSlots => tok[s].def = "NotDefault"
  /\ did.op \in {"unbind", "bind_default"}
       => /\ Len(calls) = 1
          /\ calls[1].f \in BindEntries
          /\ calls[1].arg = 0
          /\ \A s \in did.slots :
               /\ DriverBinding(s) = 0
               /\ tok[s].def = "IsDefault"

\* A buffer was bound to the copy-write slot over another slot's binding of
\* the same buffer.
C26_Witness ==
  /\ did = Did("bind", {"copy_write"})
  /\ args.handle = 1
  /\ bound["copy_write"] = 1
  /\ bound["array"] = 1
  /\ tok["copy_write"].def = "NotDefault"
  /\ calls = <<Call("BindBuffer", "copy_write", 1)>>

\* A slot that had a buffer bound was unbound.
C26_WitnessUnbind ==
  /\ did = Did("unbind", {"array"})
  /\ bound["array"] = 0
  /\ tok["array"].def = "IsDefault"
  /\ calls = <<Call("BindBuffer", "array", 0)>>
  /\ bufLen[1] > 0

\* A buffer was bound to the element array slot: the binding is that of the
\* vertex array bound.
C26_WitnessElementArray ==
  /\ did = Did("bind", {"element_array"})
  /\ vaoElem[bound["vertex_array"]] = 1
  /\ tok["element_array"].def = "NotDefault"

\* Both framebuffer slots were bound to the default framebuffer at once.
C26_WitnessDefault ==
  /\ did = Did("bind_default", FbSlots)
  /\ \A s \in FbSlots : bound[s] = 0 /\ tok[s].def = "IsDefault"


\* C27: inherit and inherit_mut issue no driver call and leave every binding
\* of the driver, the element array binding of every vertex array included,
\* as it was; the token they hand out is tagged Unknown, a framebuffer's
\* Unknown in defaultness and in completeness; a texture token has no tag.
C27_Step ==
  did'.op \in {"inherit", "inherit_mut"}
    => /\ calls' = <<>>
       /\ bound' = bound
       /\ vaoElem' = vaoElem
       /\ \A s \in did'.slots :
            /\ s \in TaggedSlots => ret'.tag = "Unknown"
            /\ s \in FbSlots => ret'.kind = "Unknown"
            /\ s \in TexSlots => ret'.tag = "Untagged"
            /\ did'.op = "inherit_mut" => (tok'[s].def = ret'.tag /\ shared'[s] = shared[s])
            /\ did'.op = "inherit" => (tok'[s] = tok[s] /\ shared'[s] = shared[s] + 1)

C27_Inherit == [][C27_Step]_vars

\* inherit_mut on a slot that has a buffer bound: the binding stays and the
\* token is tagged Unknown.
C27_Witness ==
  /\ did = Did("inherit_mut", {"array"})
  /\ bound["array"] = 1
  /\ tok["array"].def = "Unknown"
  /\ ret.tag = "Unknown"
  /\ calls = <<>>

\* inherit on a framebuffer slot whose binding another token gave.
C27_WitnessFramebuffer ==
  /\ did = Did("inherit", {"draw"})
  /\ bound["draw"] = 1
  /\ ret = Lent("Unknown", "Unknown")
  /\ shared["draw"] = 2


\* Some operation of `impl Active<.., NotDefault>` is called through the
\* token of slot s, alone or with the token of another slot.
BufferTokenOp(s) ==
  \/ \E n \in 0..MaxLen : Data(s, n) \/ DataUninit(s, n)
  \/ \E off \in 0..1, n \in 0..MaxLen : SubData(s, off, n)
  \/ \E r \in 0..1, w \in 0..1, n \in 0..MaxLen : CopySelf(s, r, w, n)
  \/ \E o \in BufSlots, r \in 0..1, w \in 0..1, n \in 0..MaxLen :
       \/ CopyFrom(s, o, r, w, n) \/ CopyFrom(o, s, r, w, n)
       \/ CopyTo(s, o, r, w, n) \/ CopyTo(o, s, r, w, n)
  \/ \E a \in {"Read", "ReadWrite"}, range \in Ranges, ok \in BOOLEAN, junk \in 0..MaxLen :
       Map(s, a, range, ok, junk)
  \/ \E junk \in 0..MaxLen : ActiveLen(s, junk) \/ IsEmpty(s, junk)
  \/ \E hint \in BOOLEAN : Usage(s, hint)
  \/ s = "array" /\ \E enable \in Options : Attribute(<<"Float", "F32">>, "None", 0, enable)

TokenOp(s) ==
  \/ s \in BufSlots /\ BufferTokenOp(s)
  \/ s = "program" /\ \E empty \in BOOLEAN : Uniform(empty) \/ UniformMatrix(empty)
  \/ s = "vertex_array" /\ \E enable \in Options : Attribute(<<"Float", "F32">>, "None", 0, enable)
  \/ s = "vertex_array" /\ \E enabled \in BOOLEAN : SetAttributeEnabled(enabled)

\* The operations that need the token of one of the slots S took place
\* through tokens tagged NotDefault.
ThroughNotDefault(S) == \A s \in S : tok[s].def = "NotDefault"

C28_WitnessAttribute ==
  /\ did.op = "attribute"
  /\ Len(calls) = 2
  /\ tok["vertex_array"].def = "NotDefault"
  /\ tok["array"].def = "NotDefault"

\* uniform was called through the token of a bound program.
C28_WitnessUniform ==
  /\ did.op = "uniform"
  /\ Len(calls) = 1
  /\ tok["program"].def = "NotDefault"
  /\ bound["program"] = 1


\* C29: the length of a buffer's datastore is the length passed to the most
\* recent data or data_uninit on it.  Step by step: data and data_uninit
\* set the length of the buffer bound to their target to the length they
\* were given and leave every other buffer's alone; no other operation but a
\* deletion changes any length, sub_data in particular; and len on a
\* target with a buffer bound returns that buffer's length.
C29_Step ==
  /\ \A s \in TokenSlots :
       (did'.slots = {s} /\ DriverBinding(s)' # 0) =>
         /\ did'.op \in {"data", "data_uninit"}
              => /\ bufLen'[DriverBinding(s)'] = calls'[1].arg
                 /\ \A n \in Names \ {DriverBinding(s)'} : bufLen'[n] = bufLen[n]
         /\ did'.op = "len"
              => /\ ret'.res = "Ok"
                 /\ ret'.name = bufLen[DriverBinding(s)']
  /\ did'.op \notin {"data", "data_uninit", "delete"} => bufLen' = bufLen

C29_Len == [][C29_Step]_vars

\* len returned the length of the last data, given through the other slot,
\* after a sub_data.
C29_Witness ==
  /\ did = Did("len", {"array"})
  /\ bound["array"] = 1
  /\ bound["copy_write"] = 1
  /\ bufLen[1] = MaxLen
  /\ ret.name = MaxLen

\* A sub_data that reaches past the end of a datastore of one byte made by
\* data_uninit left the length as it was.
C29_WitnessSubData ==
  /\ did.op = "sub_data"
  /\ args = ByteArgs(0, 0, 1)
  /\ bound["array"] = 1
  /\ bufLen[1] = 1


\* C30: a Read guard over the range of the guard last written through, on a
\* buffer that no other write has reached and whose datastore no unmap has
\* reported lost since, shows the bytes as they stood after the last store;
\* and a load through the guard returns the byte of that slice.
C30_RoundTrip ==
  \A s \in BufSlots :
    (guard[s].live /\ guard[s].valid /\ guard[s].access = "Read") =>
      LET b == guard[s].buf IN
        /\ (wrote[b].valid /\ wrote[b].off = guard[s].off /\ wrote[b].len = guard[s].len)
             => Slice(s) = wrote[b].bytes
        /\ (did = Did("load", {s}) /\ ret.res = "Ok" /\ wrote[b].valid
              /\ wrote[b].off = guard[s].off /\ wrote[b].len = guard[s].len)
             => ret.name = wrote[b].bytes[args.i + 1]

\* A byte other than the buffer was filled with, stored at the second byte
\* of the datastore through a guard from the second byte on, was loaded
\* through a Read guard over the same range.
C30_Witness ==
  /\ did = Did("load", {"array"})
  /\ guard["array"].live
  /\ guard["array"].access = "Read"
  /\ guard["array"].valid
  /\ guard["array"].off = 1
  /\ wrote[guard["array"].buf] = [valid |-> TRUE, off |-> 1, len |-> 1, bytes |-> <<1>>]
  /\ ret.res = "Ok"
  /\ ret.name = 1

\* The bytes stored through a guard over the whole datastore were mapped
\* again through the other slot.
C30_WitnessOtherSlot ==
  /\ guard["copy_write"].live
  /\ guard["copy_write"].access = "Read"
  /\ guard["copy_write"].valid
  /\ wrote[guard["copy_write"].buf] = [valid |-> TRUE, off |-> 0, len |-> 2, bytes |-> <<1, 1>>]
  /\ guard["copy_write"].len = 2
  /\ did = Did("map", {"copy_write"})


\* The slots whose driver binding a step has reset from an object to the
\* default object.
ResetSlots == {s \in Slots : DriverBinding(s) # 0 /\ DriverBinding(s)' = 0}

\* A deletion is made with exclusive access to the slots the deleted objects
\* could be bound to: no token of these slots is live when it is made.
C31_Exclusive ==
  [][did'.op = "delete" => \A s \in did'.slots : tok[s] = NoToken /\ shared[s] = 0]_vars

\* No token tagged NotDefault is live on a slot whose binding a deletion has
\* reset to the default object.
C31_NoneLeftBehind ==
  [][did'.op = "delete" => \A s \in ResetSlots : tok'[s].def # "NotDefault"]_vars

\* The same of every slot but the element-array slot, whose binding is state
\* of the bound vertex array.
C31_NoneLeftBehindElsewhere ==
  [][did'.op = "delete"
       => \A s \in ResetSlots \ {"element_array"} : tok'[s].def # "NotDefault"]_vars

\* C31: deleting buffers, framebuffers, vertex arrays or textures through
\* their slots takes exclusive access to the slots the deleted objects could
\* be bound to, so that no token of such a slot is live at the deletion, and
\* no live NotDefault token is left on a slot that the deletion has reset to
\* the default object.
C31_Deletion ==
  [][did'.op = "delete"
       => /\ \A s \in did'.slots : tok[s] = NoToken /\ shared[s] = 0
          /\ \A s \in ResetSlots : tok'[s].def # "NotDefault"]_vars

\* The vertex array whose element-array binding a live NotDefault token of
\* the element-array slot was made for has been deleted, and the slot is
\* left with no buffer.
C31_WitnessElementArray ==
  /\ did = Did("delete", {"vertex_array"})
  /\ tok["element_array"].def = "NotDefault"
  /\ DriverBinding("element_array") = 0


\* Some value other than the none value occurs more than once in the slice.
RepeatsBuffer(slice) ==
  \E i, j \in 1..Len(slice) : i < j /\ slice[i] = slice[j] /\ slice[i] # "None"

\* C32: draw_buffers panics, with no DrawBuffers call issued, exactly when
\* a value other than the none value occurs more than once in the slice;
\* every other slice, repeated none values included, is passed to the driver
\* in one DrawBuffers call.
C32_DrawBuffers ==
  did.op = "draw_buffers" =>
    IF RepeatsBuffer(args.buffers)
      THEN ret = Panic /\ calls = <<>>
      ELSE /\ ret = NoRet
           /\ calls = <<OutputCall("DrawBuffers", "draw", args.buffers)>>

\* The same of the slices in which the none value does not repeat.
C32_DrawBuffersUnrepeated ==
  (did.op = "draw_buffers"
     /\ \A i, j \in 1..Len(args.buffers) : i < j => ~(args.buffers[i] = "None" /\ args.buffers[j] = "None"))
    => IF RepeatsBuffer(args.buffers)
         THEN ret = Panic /\ calls = <<>>
         ELSE /\ ret = NoRet
              /\ calls = <<OutputCall("DrawBuffers", "draw", args.buffers)>>

\* A slice of two none values made draw_buffers panic.
C32_WitnessNone ==
  /\ did.op = "draw_buffers"
  /\ args.buffers = <<"None", "None">>
  /\ ret = Panic


\* The token of slot s proves the framebuffer the values of an enum are
\* valid for: a user framebuffer for Buffer, the default one for DefaultBuffer.
ProvenFor(s, kind) ==
  IF kind = "Buffer"
    THEN tok[s].def = "NotDefault" /\ DriverBinding(s) # 0
    ELSE tok[s].def = "IsDefault" /\ DriverBinding(s) = 0

\* The calls of read_buffer and draw_buffers that reach the driver.
SelectsOutput == did.op \in {"read_buffer", "draw_buffers"} /\ calls # <<>>

\* C36: every ReadBuffer or DrawBuffers call passes values of the enum that
\* is valid for the framebuffer bound to the target the call affects: Buffer
\* values while the token of that slot proves a user framebuffer bound,
\* DefaultBuffer values while it proves the default framebuffer bound.
C36_ValidOutputs ==
  SelectsOutput => ProvenFor(calls[1].target, args.kind)

\* The same of draw_buffers and of read_buffer through a token of the read slot.
C36_ValidThroughOwnSlot ==
  (SelectsOutput /\ did.slots = {calls[1].target}) => ProvenFor(calls[1].target, args.kind)

\* ReadBuffer(BACK) issued through the token of the draw slot while a user
\* framebuffer is bound to the read slot.
C36_WitnessReadBack ==
  /\ did.op = "read_buffer"
  /\ args = BufferArgs("DefaultBuffer", <<"Back">>)
  /\ calls = <<OutputCall("ReadBuffer", "read", <<"Back">>)>>
  /\ DriverBinding("read") # 0
  /\ tok["read"].def = "NotDefault"


\* The pointer-setting calls among the driver calls of the last operation.
PointerCalls ==
  {i \in 1..Len(calls) : calls[i].f \in {"VertexAttribPointer", "VertexAttribIPointer"}}

\* C33: every VertexAttribPointer or VertexAttribIPointer call of attribute
\* is issued while a buffer other than 0 is bound to the array-buffer
\* target, so the driver reads the offset as an offset into that buffer.
C33_ArrayBufferBound ==
  PointerCalls # {} => DriverBinding("array") # 0 /\ buf[DriverBinding("array")] = "Buffer"

\* attribute set an integer attribute from the buffer bound to the array slot.
C33_Witness ==
  /\ did.op = "attribute"
  /\ PointerCalls = {1}
  /\ calls[1].f = "VertexAttribIPointer"
  /\ DriverBinding("array") = 1

\* The alignment by the width of the type: 1 for the 8-bit types, 2 for the
\* 16-bit ones and the half float, 4 for the 32-bit ones, the float, the
\* fixed-point and the packed ones.
AlignOfWidth(ty) ==
  IF ty[2] \in {"U8", "I8"} THEN 1
  ELSE IF ty[2] \in {"U16", "I16", "F16"} THEN 2
  ELSE 4

\* The calls of an attribute that went through: one pointer call, then one
\* enable call for Some(true), one disable call for Some(false), none for None.
CallsOfAttribute ==
  <<PointerCall(args.ty, args.offset)>>
    \o (CASE args.enable = "Some(true)" -> <<Call("EnableVertexAttribArray", "vertex_array", 0)>>
          [] args.enable = "Some(false)" -> <<Call("DisableVertexAttribArray", "vertex_array", 0)>>
          [] args.enable = "None" -> <<>>)

\* C34 as stated: attribute panics with no driver call when the offset is
\* not a multiple of the alignment of the type, and with an aligned offset
\* issues the pointer call and the enable or disable call asked for.
C34_AlignedOffsetSuffices ==
  did.op = "attribute" =>
    IF args.offset % AlignOfWidth(args.ty) # 0
      THEN ret = Panic /\ calls = <<>>
      ELSE ret = NoRet /\ calls = CallsOfAttribute

\* C34: attribute panics with no driver call when the offset is not a
\* multiple of the alignment of the type or the stride does not fit an i32;
\* with an aligned offset and a stride that is None or fits it issues one
\* pointer call, then one enable call for Some(true), one disable call for
\* Some(false) and neither for None.
C34_Attribute ==
  did.op = "attribute" =>
    IF args.offset % AlignOfWidth(args.ty) # 0 \/ args.stride = "Some(2^31)"
      THEN ret = Panic /\ calls = <<>>
      ELSE ret = NoRet /\ calls = CallsOfAttribute

\* A 16-bit attribute at offset 2 was set and enabled in two calls.
C34_Witness ==
  /\ did.op = "attribute"
  /\ args = AttributeArgs(<<"Normalized", "U16">>, "Some(4)", 2, "Some(true)")
  /\ Len(calls) = 2
  /\ calls[2].f = "EnableVertexAttribArray"

\* A float attribute at offset 2 made attribute panic.
C34_WitnessMisaligned ==
  /\ did.op = "attribute"
  /\ args.ty = <<"Float", "F32">>
  /\ args.offset = 2
  /\ ret = Panic

\* An attribute at offset 0 with a stride beyond i32::MAX made attribute panic.
C34_WitnessStride ==
  /\ did.op = "attribute"
  /\ args.offset = 0
  /\ args.stride = "Some(2^31)"
  /\ ret = Panic
  /\ calls = <<>>


\* The mipmap levels contained in a range, an unbounded end reaching level 1000.
LevelsIn(range) ==
  {l \in 0..1000 :
     /\ CASE range.lo.kind = "Unbounded" -> TRUE
          [] range.lo.kind = "Included" -> l >= range.lo.x
          [] range.lo.kind = "Excluded" -> l > range.lo.x
     /\ CASE range.hi.kind = "Unbounded" -> TRUE
          [] range.hi.kind = "Included" -> l <= range.hi.x
          [] range.hi.kind = "Excluded" -> l < range.hi.x}

\* level_range set the base level to the smallest and the max level to the
\* largest level of a set.
SetLevelsTo(levels) ==
  /\ Len(calls) = 2
  /\ calls[1].f = "TexParameteri" /\ calls[1].flags = {"TEXTURE_BASE_LEVEL"}
  /\ calls[2].f = "TexParameteri" /\ calls[2].flags = {"TEXTURE_MAX_LEVEL"}
  /\ \A l \in levels : calls[1].arg <= l /\ l <= calls[2].arg
  /\ calls[1].arg \in levels
  /\ calls[2].arg \in levels

\* C35: level_range(range) sets TEXTURE_BASE_LEVEL to the smallest level
\* contained in range and TEXTURE_MAX_LEVEL to the largest one, 0 for an
\* unbounded start and 1000 for an unbounded end; for a..b the max level
\* set is b - 1.
C35_LevelRange ==
  (did.op = "level_range" /\ LevelsIn(args) # {}) => SetLevelsTo(LevelsIn(args))

\* The same of the ranges whose end is unbounded or included.
C35_LevelRangeToIncluded ==
  (did.op = "level_range" /\ LevelsIn(args) # {} /\ args.hi.kind # "Excluded")
    => SetLevelsTo(LevelsIn(args))

\* level_range(0..2) set TEXTURE_MAX_LEVEL to 3.
C35_WitnessHalfOpen ==
  /\ did.op = "level_range"
  /\ args = [lo |-> Included(0), hi |-> Excluded(2)]
  /\ calls[1].arg = 0
  /\ calls[2].arg = 3

\* The texture tokens alive, exclusive and shared ones.
TextureTokens == {s \in TexSlots : tok[s] # NoToken \/ shared[s] > 0}

\* A call of unit finds and leaves no texture token alive, and nothing else
\* changes the active texture unit.
C37_Step ==
  /\ did'.op = "unit" => TextureTokens = {} /\ TextureTokens' = {}
  /\ unit' # unit => did'.op = "unit"
  /\ TextureTokens # {} => unit' = unit

\* C37: Slots::unit takes every texture slot exclusively: no texture token
\* obtained before a call of unit is alive after it, so a texture token in
\* use was obtained while the texture unit now active was the active one.
C37_Unit == [][C37_Step]_vars

\* unit switched to unit 1 after a texture had been bound on unit 0, and the
\* texture was bound again through a token of unit 1.
C37_Witness ==
  /\ unit = 1
  /\ parked[0]["d2"] = 1
  /\ tok["d2"].op = "bind"
  /\ DriverBinding("d2") = 1

\* unit switched the active unit: the 2D target shows the default texture
\* of unit 1 and no texture token is alive.
C37_WitnessSwitched ==
  /\ did.op = "unit"
  /\ unit = 1
  /\ parked[0]["d2"] = 1
  /\ DriverBinding("d2") = 0
  /\ TextureTokens = {}


\* The names of the driver calls of the last operation, in order.
CallOrder == [i \in 1..Len(calls) |-> calls[i].f]

\* C38: link issues attach of the vertex shader, attach of the fragment
\* shader, link, the query of the link status, detach of the vertex shader,
\* detach of the fragment shader, in this order, whether the link succeeds
\* or fails; after link has returned neither shader is attached to the program.
C38_Link ==
  /\ did.op = "link" =>
       /\ CallOrder = <<"AttachShader", "AttachShader", "LinkProgram", "GetProgramiv",
                        "DetachShader", "DetachShader">>
       /\ <<calls[1].target, calls[2].target>> = <<"vertex", "fragment">>
       /\ <<calls[5].target, calls[6].target>> = <<"vertex", "fragment">>
       /\ ret.res \in {"Ok", "Err"}
  /\ \A n \in Single : attached[n] = {}

\* A link the driver refused returned the program in an error.
C38_Witness ==
  /\ did.op = "link"
  /\ ret.res = "Err"
  /\ calls[4].out = "GL_FALSE"
  /\ Len(calls) = 6
  /\ attached[1] = {}

\* A link that succeeded.
C38_WitnessLinked ==
  /\ did.op = "link"
  /\ ret.res = "Ok"
  /\ prog[1] = "LinkedProgram"
  /\ attached[1] = {}

====
